---- MODULE Spec2Model ----
(***************************************************************************)
(* Audit-log ingestion and lifecycle pipeline of kingrain94/audit-log-api. *)
(*                                                                         *)
(* SpecIngest    : Create / BulkCreate, the index queue, the index worker, *)
(*                 PostgreSQL writer, OpenSearch, Redis publish.           *)
(* SpecLifecycle : Create, ScheduleArchive, the archive and cleanup        *)
(*                 queues and workers, writer and read replica, S3.        *)
(* SpecRead      : the read handlers over writer, replica and index.       *)
(* SpecLive      : the WebSocket hub with its Redis pub/sub bridge.        *)
(***************************************************************************)
EXTENDS Integers, Sequences, FiniteSets, TLC

\* ------------------------------------------------------------------ bounds
Tenants == {"tA", "tB"}
MaxTime == 2          \* event timestamps and before_date range over 1..MaxTime
MaxEvents == 2        \* events submitted through Create / BulkCreate
MaxBulk == 2          \* events in one BulkCreate request
MaxArchives == 1      \* ScheduleArchive calls
MaxCleanupMsgs == 1   \* CLEANUP messages ever enqueued
MaxBatch == 1         \* messages returned by one ReceiveMessages call
BatchSize == 1        \* CreateInBatches chunk size (100 in the source)
NumClients == 3       \* WebSocket connections
SendBufSize == 1      \* websocketSendChannelBufferSize (256 in the source)
MaxPublished == SendBufSize + 2     \* BroadcastLog calls of the serving model
GlobalLimit == 2       \* budget of GlobalRateLimit (10000 in the source)
DefaultRateLimit == 1  \* config.DefaultRateLimit (1000 in the source)
Window == 2            \* the TTL of a counter, time.Minute, in clock ticks

Times == 1..MaxTime
Users == {"u1"}
None == [none |-> TRUE]

Handlers == {"h1"}
ArchivePeers == {"a1"}
CleanupPeers == {"c1"}
IndexPeers == {"i1"}
Clients == 1..NumClients

\* queue.MessageType
MessageTypeIndex == "INDEX"
MessageTypeBulkIndex == "BULK_INDEX"
MessageTypeArchive == "ARCHIVE"
MessageTypeCleanup == "CLEANUP"

VARIABLES
  ps,          \* audit_logs rows on the writer database
  psR,         \* audit_logs rows as seen on the read replica
  indices,     \* OpenSearch indices that exist
  si,          \* OpenSearch documents
  oa,          \* S3 bucket: key -> object
  indexQ, archiveQ, cleanupQ,   \* SQS queues (sets of messages, unique mid)
  nextMsg,     \* next message id of the index queue
  nextId,      \* next fresh uuid
  quota,       \* events still to be submitted
  archives,    \* ScheduleArchive calls made
  api,         \* API request handlers
  aw, cw, iw,  \* worker peers
  published,   \* messages published on Redis, in publish order
  archived,    \* history: (tenant, before_date) pairs processArchiveMessage returned nil for
  cleanups,    \* CLEANUP messages enqueued so far
  cleaned,     \* history: (tenant, before_date) pairs processCleanupMessage returned nil for
  scheduled,   \* history: (tenant, before_date) -> the events of the tenant before that
               \* date that the writer held when ScheduleArchive enqueued ARCHIVE
  wp           \* the index worker pool: shutdownChan, the peers' tickers, the peers
               \* that returned from runWorker, and the caller of Stop

storeVars == <<ps, psR, indices, si, oa, indexQ, archiveQ, cleanupQ, nextMsg,
               nextId, quota, archives, api, aw, cw, iw, published, archived, cleanups,
               cleaned, scheduled, wp>>

VARIABLES
  clients,        \* WebSocketHandler.clients
  tenantClients,  \* WebSocketHandler.tenantClients
  subs,           \* RedisPubSub.subscribers (tenants subscribed)
  chan,           \* per tenant: messages Redis has pushed to the subscription, not yet handled
  send,           \* per client: the buffered send channel
  closed,         \* per client: the sites that ran close(client.send), in order
  conn,           \* per client: connection life cycle
  dl,             \* per receive goroutine: where it is in handlePubSubMessage
  wire,           \* per client: messages writePump wrote to the connection
  crashed,        \* the API process died on a runtime fatal error
  resp            \* the last response of a read handler

liveVars == <<clients, tenantClients, subs, send, closed, conn, dl, wire, crashed, resp>>

VARIABLES
  counter,     \* Redis: rate-limit key -> value of the counter (0: no such key)
  ttl,         \* Redis: rate-limit key -> seconds to live, in ticks of the window
  rq,          \* per connection: the request passing the middleware chain
  redisUp,     \* Redis answers the calls of the limiters
  burst        \* history per rate-limit key: the requests of the current burst

gateVars == <<counter, ttl, rq, redisUp, burst>>

\* what the write, retention and read paths leave alone
pipeVars == <<storeVars, gateVars>>
hubVars == <<liveVars, gateVars, cleaned, scheduled, wp>>

vars == <<storeVars, chan, liveVars, gateVars>>

\* ------------------------------------------------------------- helpers
\* a started pool: shutdownChan open, no tick waiting in a ticker's channel,
\* no peer returned, Stop not called
IndexPool == {"i1", "i2"}

RunningPool ==
  [closed |-> FALSE, tick |-> [w \in IndexPool |-> FALSE],
   gone |-> [w \in IndexPool |-> FALSE], stop |-> "idle"]

SeqToSet(s) == {s[i] : i \in 1..Len(s)}

Min(a, b) == IF a < b THEN a ELSE b

\* domain.AuditLog reduced to identity, tenant, actor and event time
AuditLog(id, t, u, ts) == [id |-> id, tenant_id |-> t, user_id |-> u, timestamp |-> ts]

\* dto.CreateAuditLogRequest.ToAuditLog: the body's tenant_id is copied, ID stays empty
ToAuditLog(req) == AuditLog(0, req.tenant_id, req.user_id, req.timestamp)

\* dto.FromAuditLog
FromAuditLog(log) ==
  [id |-> log.id, tenant_id |-> log.tenant_id, user_id |-> log.user_id,
   timestamp |-> log.timestamp]

\* queue.Message
Message(mid, type, t, logs, before) ==
  [mid |-> mid, type |-> type, tenant_id |-> t, logs |-> logs, before_date |-> before]

\* an API request handler; stored, sent, pubs, enqErr, pubErr record what the
\* request in progress has done so far
IdleReq == [op |-> "none", pc |-> "idle", tok |-> "tA", logs |-> <<>>, k |-> 1,
            result |-> "none", stored |-> {}, sent |-> <<>>, pubs |-> <<>>,
            enqErr |-> 0, pubErr |-> 0]
\* a worker peer: its position in processMessages, the received batch, the
\* logs read for the message in hand, the index groups already written
IdlePeer == [pc |-> "poll", batch |-> <<>>, logs |-> {}, done |-> {}]

\* pubsub.getChannelName
getChannelName(t) == <<"audit_logs:", t>>

\* config.OpenSearchConfig.GetIndexName: one index per tenant and event day
GetIndexName(t, ts) == <<"audit_logs", t, ts>>

\* ArchiveWorker.archiveLogsToS3: the object key
S3Key(t, before) == <<"audit-logs", t, before>>

\* ---------------------------------------------------------- Redis pub/sub

\* RedisPubSub.Publish: the message goes to the channel of log.TenantID; Redis
\* hands it to the subscription of that channel if there is one
PublishOK(log) ==
  /\ published' = Append(published, [channel |-> getChannelName(log.tenant_id), log |-> log])
  /\ chan' = [t \in Tenants |->
               IF getChannelName(t) = getChannelName(log.tenant_id) /\ t \in subs
               THEN Append(chan[t], log) ELSE chan[t]]

\* ------------------------------------- API write path (AuditLogService)
Requests == [tenant_id : Tenants, user_id : Users, timestamp : Times]

\* uuid.New() for every log of the slice, in order
AssignIDs(logs, first) ==
  [i \in 1..Len(logs) |-> [logs[i] EXCEPT !.id = first + i - 1]]

\* a Create that logs the store error and goes on
CreateStoreError_GoOn(r) == [r EXCEPT !.pc = "enqueue"]

\* AuditLogService.Create, error branch of repo.Create
CreateStoreError(r) == [r EXCEPT !.pc = "done", !.result = "error"]

\* a Create that returns the enqueue error
CreateEnqueueError_Return(r) == [r EXCEPT !.pc = "done", !.result = "error", !.enqErr = 1]

\* AuditLogService.Create, error branch of SendIndexMessage: logged, not returned
CreateEnqueueError(r) == [r EXCEPT !.pc = "publish", !.enqErr = 1]

\* a Create that broadcasts right after the store and never enqueues
CreateStored_PublishFirst(r, log) == [r EXCEPT !.pc = "publish", !.stored = {log}]

\* AuditLogService.Create after repo.Create returned nil: SendIndexMessage is next
CreateStored(r, log) == [r EXCEPT !.pc = "enqueue", !.stored = {log}]

\* AuditLogService.Create up to and including AuditLogRepository.Create
CreateStore(h, req, tok, ok) ==
  /\ api[h].pc \in {"idle", "done"}
  /\ quota >= 1
  /\ quota' = quota - 1
  /\ LET log == [ToAuditLog(req) EXCEPT !.id = nextId]
         r == [IdleReq EXCEPT !.op = "create", !.tok = tok, !.logs = <<log>>]
     IN /\ nextId' = nextId + 1
        /\ IF ok
           THEN /\ ps' = ps \cup {log}
                /\ api' = [api EXCEPT ![h] = CreateStored(r, log)]
           ELSE /\ ps' = ps
                /\ api' = [api EXCEPT ![h] = CreateStoreError(r)]
  /\ UNCHANGED <<psR, indices, si, oa, indexQ, archiveQ, cleanupQ, nextMsg, archives,
                 aw, cw, iw, published, archived, cleanups, chan, hubVars>>

\* SQSService.SendIndexMessage
IndexMessage(mid, log) == Message(mid, MessageTypeIndex, log.tenant_id, <<log>>, 0)

\* SQSService.SendBulkIndexMessage
BulkIndexMessage(mid, logs) == Message(mid, MessageTypeBulkIndex, logs[1].tenant_id, logs, 0)

\* AuditLogService.Create: s.sqsSvc.SendIndexMessage
CreateEnqueue(h, ok) ==
  /\ api[h].pc = "enqueue" /\ api[h].op = "create"
  /\ IF ok
     THEN LET m == IndexMessage(nextMsg, api[h].logs[1])
          IN /\ indexQ' = indexQ \cup {m}
             /\ nextMsg' = nextMsg + 1
             /\ api' = [api EXCEPT ![h].pc = "publish", ![h].sent = Append(@, m)]
     ELSE /\ api' = [api EXCEPT ![h] = CreateEnqueueError(api[h])]
          /\ UNCHANGED <<indexQ, nextMsg>>
  /\ UNCHANGED <<ps, psR, indices, si, oa, archiveQ, cleanupQ, nextId, quota, archives,
                 aw, cw, iw, published, archived, cleanups, chan, hubVars>>

\* AuditLogService.Create: s.broadcaster.BroadcastLog, then return nil
CreatePublish(h, ok) ==
  /\ api[h].pc = "publish" /\ api[h].op = "create"
  /\ LET out == FromAuditLog(api[h].logs[1])
     IN IF ok
        THEN /\ PublishOK(out)
             /\ api' = [api EXCEPT ![h].pc = "done", ![h].result = "ok",
                                    ![h].pubs = Append(@, out)]
        ELSE /\ api' = [api EXCEPT ![h].pc = "done", ![h].result = "ok", ![h].pubErr = 1]
             /\ UNCHANGED <<published, chan>>
  /\ UNCHANGED <<ps, psR, indices, si, oa, indexQ, archiveQ, cleanupQ, nextMsg, nextId,
                 quota, archives, aw, cw, iw, archived, cleanups, hubVars>>

\* gorm CreateInBatches: the chunks are inserted one after another; failAt is
\* the chunk whose INSERT fails (0: none)
NumChunks(n) == (n + BatchSize - 1) \div BatchSize

Chunk(logs, c) ==
  {logs[i] : i \in ((c - 1) * BatchSize + 1)..Min(c * BatchSize, Len(logs))}

RECURSIVE InsertChunks(_, _, _, _)
InsertChunks(store, logs, c, failAt) ==
  IF c > NumChunks(Len(logs)) THEN [store |-> store, err |-> FALSE]
  ELSE IF c = failAt THEN [store |-> store, err |-> TRUE]
  ELSE InsertChunks(store \cup Chunk(logs, c), logs, c + 1, failAt)

\* chunks committed one by one (SkipDefaultTransaction)
CreateInBatches_NoTransaction(store, logs, failAt) == InsertChunks(store, logs, 1, failAt)

\* the chunks run inside one transaction (gorm's default transaction): an
\* error rolls every chunk back
CreateInBatches(store, logs, failAt) ==
  LET r == InsertChunks(store, logs, 1, failAt)
  IN IF r.err THEN [store |-> store, err |-> TRUE] ELSE r

\* AuditLogRepository.BulkCreate: ids are generated and every log is rebound
\* to the tenant of the caller's token
BulkPrepare(logs, first, tok) ==
  [i \in 1..Len(logs) |-> [AssignIDs(logs, first)[i] EXCEPT !.tenant_id = tok]]

BulkRequests ==
  UNION {[1..n -> Requests] : n \in 1..MaxBulk}

\* AuditLogService.BulkCreate up to and including AuditLogRepository.BulkCreate
BulkStore(h, reqs, tok, failAt) ==
  /\ api[h].pc \in {"idle", "done"}
  /\ quota >= Len(reqs)
  /\ failAt \in 0..NumChunks(Len(reqs))
  /\ quota' = quota - Len(reqs)
  /\ nextId' = nextId + Len(reqs)
  /\ LET logs == BulkPrepare([i \in 1..Len(reqs) |-> ToAuditLog(reqs[i])], nextId, tok)
         r == [IdleReq EXCEPT !.op = "bulk", !.tok = tok, !.logs = logs]
         res == CreateInBatches(ps, logs, failAt)
     IN /\ ps' = res.store
        /\ api' = [api EXCEPT ![h] =
                     IF res.err
                     THEN [r EXCEPT !.pc = "done", !.result = "error",
                                    !.stored = res.store \ ps]
                     ELSE [r EXCEPT !.pc = "enqueue", !.stored = res.store \ ps]]
  /\ UNCHANGED <<psR, indices, si, oa, indexQ, archiveQ, cleanupQ, nextMsg, archives,
                 aw, cw, iw, published, archived, cleanups, chan, hubVars>>

\* AuditLogService.BulkCreate: s.sqsSvc.SendBulkIndexMessage (one message)
BulkEnqueue(h, ok) ==
  /\ api[h].pc = "enqueue" /\ api[h].op = "bulk"
  /\ IF ok /\ Len(api[h].logs) > 0
     THEN LET m == BulkIndexMessage(nextMsg, api[h].logs)
          IN /\ indexQ' = indexQ \cup {m}
             /\ nextMsg' = nextMsg + 1
             /\ api' = [api EXCEPT ![h].pc = "publish", ![h].sent = Append(@, m)]
     ELSE /\ api' = [api EXCEPT ![h].pc = "publish", ![h].enqErr = 1]
          /\ UNCHANGED <<indexQ, nextMsg>>
  /\ UNCHANGED <<ps, psR, indices, si, oa, archiveQ, cleanupQ, nextId, quota, archives,
                 aw, cw, iw, published, archived, cleanups, chan, hubVars>>

\* AuditLogService.BulkCreate: one BroadcastLog per log, then return nil
BulkPublish(h, ok) ==
  /\ api[h].pc = "publish" /\ api[h].op = "bulk"
  /\ LET k == api[h].k
         out == FromAuditLog(api[h].logs[k])
         last == k = Len(api[h].logs)
         r == [api[h] EXCEPT !.k = k + 1,
                             !.pc = IF last THEN "done" ELSE "publish",
                             !.result = IF last THEN "ok" ELSE "none"]
     IN IF ok
        THEN /\ PublishOK(out)
             /\ api' = [api EXCEPT ![h] = [r EXCEPT !.pubs = Append(@, out)]]
        ELSE /\ api' = [api EXCEPT ![h] = [r EXCEPT !.pubErr = @ + 1]]
             /\ UNCHANGED <<published, chan>>
  /\ UNCHANGED <<ps, psR, indices, si, oa, indexQ, archiveQ, cleanupQ, nextMsg, nextId,
                 quota, archives, aw, cw, iw, archived, cleanups, hubVars>>

\* AuditLogHandler.Cleanup -> AuditLogService.ScheduleArchive: the tenant is
\* the token's, the only message sent is ARCHIVE on the archive queue
ScheduleArchive(tok, before, ok) ==
  /\ archives < MaxArchives
  /\ archives' = archives + 1
  /\ IF ok
     THEN /\ archiveQ' = archiveQ \cup
                           {Message(archives + 1, MessageTypeArchive, tok, <<>>, before)}
          /\ scheduled' = [scheduled EXCEPT ![<<tok, before>>] =
                             [sent |-> TRUE,
                              events |-> {e \in ps : e.tenant_id = tok
                                                      /\ e.timestamp < before}]]
     ELSE UNCHANGED <<archiveQ, scheduled>>
  /\ UNCHANGED <<ps, psR, indices, si, oa, indexQ, cleanupQ, nextMsg, nextId, quota, api,
                 aw, cw, iw, published, archived, cleanups, chan, liveVars, gateVars, cleaned,
                 wp>>

\* the read replica catches up with the writer
Replicate ==
  /\ psR # ps
  /\ psR' = ps
  /\ UNCHANGED <<ps, indices, si, oa, indexQ, archiveQ, cleanupQ, nextMsg, nextId, quota,
                 archives, api, aw, cw, iw, published, archived, cleanups, chan, hubVars>>

\* ------------------------------------------------ SQS receive and delete
\* SQSService.ReceiveMessages: up to maxMessages messages of the queue; a
\* message stays in the queue until DeleteMessage removes it
Batches(q) ==
  {b \in UNION {[1..n -> q] : n \in 1..MaxBatch} :
     \A i, j \in 1..Len(b) : i # j => b[i] # b[j]}

\* processMessages: go on with the next message of the batch, or poll again
Advance(p, first) ==
  [IdlePeer EXCEPT !.batch = Tail(p.batch),
                   !.pc = IF Len(p.batch) > 1 THEN first ELSE "poll"]

\* ------------------------------------------------------- archive worker
\* AuditLogRepository.List, the WHERE clause: tenant, user_id when set,
\* timestamp >= StartTime and timestamp <= EndTime when set (0: zero time)
ListWhere(db, filter) ==
  {e \in db : /\ e.tenant_id = filter.TenantID
              /\ (filter.UserID # "" => e.user_id = filter.UserID)
              /\ (filter.StartTime # 0 => e.timestamp >= filter.StartTime)
              /\ (filter.EndTime # 0 => e.timestamp <= filter.EndTime)}

\* the content predicates of a domain.AuditLogFilter other than UserID, unset
NoContent ==
  [Action |-> "", ResourceType |-> "", Severity |-> "", SessionID |-> "",
   IPAddress |-> "", UserAgent |-> "", Message |-> ""]

\* ArchiveWorker.processArchiveMessage: the filter of the archive read
ArchiveFilter(msg) ==
  [TenantID |-> msg.tenant_id, UserID |-> "", StartTime |-> 0, EndTime |-> msg.before_date,
   Page |-> 0, PageSize |-> 0, Limit |-> 0, Offset |-> 0] @@ NoContent

\* a worker that enqueues the cleanup whatever the read returned, without
\* writing the object
AfterArchiveRead_NoWrite(logs) == "enqueue"

\* ArchiveWorker.processArchiveMessage: where it goes after the read
AfterArchiveRead(logs) == IF logs = {} THEN "enqueue" ELSE "write"

\* ArchiveWorker.archiveLogsToS3: the archive envelope
ArchiveObject(t, before, logs) ==
  [tenant_id |-> t, before_date |-> before, log_count |-> Cardinality(logs), logs |-> logs]

\* ArchiveWorker.processMessages: ReceiveMessages on the archive queue
ArchiveReceive(w, b) ==
  /\ aw[w].pc = "poll"
  /\ b \in Batches(archiveQ)
  /\ aw' = [aw EXCEPT ![w] = [IdlePeer EXCEPT !.pc = "read", !.batch = b]]
  /\ UNCHANGED <<ps, psR, indices, si, oa, indexQ, archiveQ, cleanupQ, nextMsg, nextId,
                 quota, archives, api, cw, iw, published, archived, cleanups, chan, hubVars>>

\* ArchiveWorker.processArchiveMessage: repository.AuditLog().List on the reader
ArchiveRead(w, ok) ==
  /\ aw[w].pc = "read"
  /\ LET msg == Head(aw[w].batch)
         logs == ListWhere(psR, ArchiveFilter(msg))
     IN IF msg.type # MessageTypeArchive
        THEN aw' = [aw EXCEPT ![w] = Advance(aw[w], "read")]
        ELSE IF ok
        THEN aw' = [aw EXCEPT ![w] = [aw[w] EXCEPT !.pc = AfterArchiveRead(logs),
                                                  !.logs = logs]]
        ELSE aw' = [aw EXCEPT ![w] = Advance(aw[w], "read")]
  /\ UNCHANGED <<ps, psR, indices, si, oa, indexQ, archiveQ, cleanupQ, nextMsg, nextId,
                 quota, archives, api, cw, iw, published, archived, cleanups, chan, hubVars>>

\* ArchiveWorker.archiveLogsToS3: PutObject
ArchiveWrite(w, ok) ==
  /\ aw[w].pc = "write"
  /\ LET msg == Head(aw[w].batch)
     IN IF ok
        THEN /\ oa' = [oa EXCEPT ![S3Key(msg.tenant_id, msg.before_date)] =
                         ArchiveObject(msg.tenant_id, msg.before_date, aw[w].logs)]
             /\ aw' = [aw EXCEPT ![w].pc = "enqueue"]
        ELSE /\ oa' = oa
             /\ aw' = [aw EXCEPT ![w] = Advance(aw[w], "read")]
  /\ UNCHANGED <<ps, psR, indices, si, indexQ, archiveQ, cleanupQ, nextMsg, nextId,
                 quota, archives, api, cw, iw, published, archived, cleanups, chan, hubVars>>

\* a CLEANUP message that asks for more than was archived
CleanupMessage_LaterDate(mid, msg) ==
  Message(mid, MessageTypeCleanup, msg.tenant_id, <<>>, MaxTime)

\* ArchiveWorker.enqueueCleanupMessage: the CLEANUP message built for the
\* ARCHIVE message in hand, same tenant and before_date
CleanupMessage(mid, msg) ==
  Message(mid, MessageTypeCleanup, msg.tenant_id, <<>>, msg.before_date)

\* a worker that takes a failed CLEANUP enqueue for a success
ArchiveEnqueueError_Ack(p) == [p EXCEPT !.pc = "ack"]

\* ArchiveWorker.processMessages: processArchiveMessage returned the error of
\* enqueueCleanupMessage; the loop continues without DeleteMessage
ArchiveEnqueueError(p) == Advance(p, "read")

\* ArchiveWorker.processArchiveMessage: enqueueCleanupMessage, after which
\* the message counts as processed
ArchiveEnqueue(w, ok) ==
  /\ aw[w].pc = "enqueue"
  /\ LET msg == Head(aw[w].batch)
     IN IF ok
        THEN /\ cleanups < MaxCleanupMsgs
             /\ cleanupQ' = cleanupQ \cup {CleanupMessage(cleanups + 1, msg)}
             /\ cleanups' = cleanups + 1
             /\ archived' = archived \cup {<<msg.tenant_id, msg.before_date>>}
             /\ aw' = [aw EXCEPT ![w].pc = "ack"]
        ELSE /\ aw' = [aw EXCEPT ![w] = ArchiveEnqueueError(aw[w])]
             /\ UNCHANGED <<cleanupQ, cleanups, archived>>
  /\ UNCHANGED <<ps, psR, indices, si, oa, indexQ, archiveQ, nextMsg, nextId,
                 quota, archives, api, cw, iw, published, chan, hubVars>>

\* ArchiveWorker.processMessages: DeleteMessage after processArchiveMessage
\* returned nil
ArchiveAck(w, ok) ==
  /\ aw[w].pc = "ack"
  /\ archiveQ' = IF ok THEN archiveQ \ {Head(aw[w].batch)} ELSE archiveQ
  /\ aw' = [aw EXCEPT ![w] = Advance(aw[w], "read")]
  /\ UNCHANGED <<ps, psR, indices, si, oa, indexQ, cleanupQ, nextMsg, nextId,
                 quota, archives, api, cw, iw, published, archived, cleanups, chan, hubVars>>

\* ------------------------------------------------------- cleanup worker
\* a delete that forgets the tenant predicate
DeleteBeforeDate_AnyTenant(db, t, before) == {e \in db : ~(e.timestamp < before)}

\* AuditLogRepository.DeleteBeforeDate: the rows left on the writer
DeleteBeforeDate(db, t, before) ==
  {e \in db : ~(e.tenant_id = t /\ e.timestamp < before)}

\* CleanupWorker.processMessages: ReceiveMessages on the cleanup queue
CleanupReceive(w, b) ==
  /\ cw[w].pc = "poll"
  /\ b \in Batches(cleanupQ)
  /\ cw' = [cw EXCEPT ![w] = [IdlePeer EXCEPT !.pc = "delete", !.batch = b]]
  /\ UNCHANGED <<ps, psR, indices, si, oa, indexQ, archiveQ, cleanupQ, nextMsg, nextId,
                 quota, archives, api, aw, iw, published, archived, cleanups, chan, hubVars>>

\* CleanupWorker.processCleanupMessage
CleanupDelete(w, ok) ==
  /\ cw[w].pc = "delete"
  /\ LET msg == Head(cw[w].batch)
     IN IF msg.type # MessageTypeCleanup
        THEN /\ cw' = [cw EXCEPT ![w] = Advance(cw[w], "delete")]
             /\ ps' = ps
             /\ cleaned' = cleaned
        ELSE IF ok
        THEN /\ ps' = DeleteBeforeDate(ps, msg.tenant_id, msg.before_date)
             /\ cw' = [cw EXCEPT ![w].pc = "ack"]
             /\ cleaned' = cleaned \cup {<<msg.tenant_id, msg.before_date>>}
        ELSE /\ ps' = ps
             /\ cw' = [cw EXCEPT ![w] = Advance(cw[w], "delete")]
             /\ cleaned' = cleaned
  /\ UNCHANGED <<psR, indices, si, oa, indexQ, archiveQ, cleanupQ, nextMsg, nextId,
                 quota, archives, api, aw, iw, published, archived, cleanups, chan,
                 liveVars, gateVars, scheduled, wp>>

\* CleanupWorker.processMessages: DeleteMessage after processCleanupMessage
\* returned nil
CleanupAck(w, ok) ==
  /\ cw[w].pc = "ack"
  /\ cleanupQ' = IF ok THEN cleanupQ \ {Head(cw[w].batch)} ELSE cleanupQ
  /\ cw' = [cw EXCEPT ![w] = Advance(cw[w], "delete")]
  /\ UNCHANGED <<ps, psR, indices, si, oa, indexQ, archiveQ, nextMsg, nextId,
                 quota, archives, api, aw, iw, published, archived, cleanups, chan, hubVars>>

\* --------------------------------------------------------- index worker
\* one OpenSearch document: index name, _id, _source
Doc(log) == [index |-> GetIndexName(log.tenant_id, log.timestamp), id |-> log.id, src |-> log]

\* index requests without a DocumentID: OpenSearch makes up an _id per write
PutDocs_AutoId(docs, new) ==
  docs \cup {[n EXCEPT !.id = n.id + 10 * (Cardinality(docs) + 1)] : n \in new}

\* an index request with a DocumentID replaces the document of that id
PutDocs(docs, new) ==
  {d \in docs : ~(\E n \in new : n.index = d.index /\ n.id = d.id)} \cup new

\* repository.BulkIndex: logs grouped by index name
LogGroups(logs) == {GetIndexName(logs[i].tenant_id, logs[i].timestamp) : i \in 1..Len(logs)}

GroupLogs(logs, g) ==
  {logs[i] : i \in {j \in 1..Len(logs) : GetIndexName(logs[j].tenant_id, logs[j].timestamp) = g}}

\* repository.bulkIndexGroup: what it returns for a bulk response.  "error"
\* is a transport error or an HTTP status above 299; "ok" is HTTP 200, whose
\* body lists a status per item, and the body is not read
BulkGroupResult(http, accepted, groupLogs) == IF http = "error" THEN "error" ELSE "nil"

\* SQSWorker.processMessages: ReceiveMessages on the index queue
IndexReceive(w, b) ==
  /\ iw[w].pc = "poll"
  /\ b \in Batches(indexQ)
  /\ iw' = [iw EXCEPT ![w] = [IdlePeer EXCEPT !.pc = "index", !.batch = b]]
  /\ UNCHANGED <<ps, psR, indices, si, oa, indexQ, archiveQ, cleanupQ, nextMsg, nextId,
                 quota, archives, api, aw, cw, published, archived, cleanups, chan, hubVars>>

\* SQSWorker.processMessage, case INDEX: repository.Index.  out is
\* "nocreate" (CreateIndex failed), "nowrite" (the index request failed) or "ok"
IndexOne(w, out) ==
  /\ iw[w].pc = "index"
  /\ Head(iw[w].batch).type = MessageTypeIndex
  /\ out \in {"nocreate", "nowrite", "ok"}
  /\ LET msg == Head(iw[w].batch)
         log == msg.logs[1]
     IN IF Len(msg.logs) # 1 \/ out = "nocreate"
        THEN /\ iw' = [iw EXCEPT ![w] = Advance(iw[w], "index")]
             /\ UNCHANGED <<indices, si>>
        ELSE /\ indices' = indices \cup {GetIndexName(log.tenant_id, log.timestamp)}
             /\ IF out = "ok"
                THEN /\ si' = PutDocs(si, {Doc(log)})
                     /\ iw' = [iw EXCEPT ![w].pc = "ack"]
                ELSE /\ si' = si
                     /\ iw' = [iw EXCEPT ![w] = Advance(iw[w], "index")]
  /\ UNCHANGED <<ps, psR, oa, indexQ, archiveQ, cleanupQ, nextMsg, nextId,
                 quota, archives, api, aw, cw, published, archived, cleanups, chan, hubVars>>

\* SQSWorker.processMessage, case BULK_INDEX: one round of the loop of
\* repository.BulkIndex, i.e. bulkIndexGroup for group g.  http is the outcome
\* of the bulk request, accepted the items OpenSearch indexed (the others are
\* reported as failed items inside the HTTP 200 body)
BulkGroup(w, g, http, accepted) ==
  /\ iw[w].pc = "index"
  /\ Head(iw[w].batch).type = MessageTypeBulkIndex
  /\ LET msg == Head(iw[w].batch)
         groupLogs == GroupLogs(msg.logs, g)
     IN /\ g \in LogGroups(msg.logs) \ iw[w].done
        /\ http \in {"nocreate", "error", "ok"}
        /\ accepted \subseteq groupLogs
        /\ http # "ok" => accepted = {}
        /\ indices' = IF http = "nocreate" THEN indices ELSE indices \cup {g}
        /\ si' = PutDocs(si, {Doc(l) : l \in accepted})
        /\ IF http = "nocreate" \/ BulkGroupResult(http, accepted, groupLogs) = "error"
           THEN iw' = [iw EXCEPT ![w] = Advance(iw[w], "index")]
           ELSE iw' = [iw EXCEPT ![w].done = @ \cup {g},
                                 ![w].pc = IF LogGroups(msg.logs) \ (iw[w].done \cup {g}) = {}
                                           THEN "ack" ELSE "index"]
  /\ UNCHANGED <<ps, psR, oa, indexQ, archiveQ, cleanupQ, nextMsg, nextId,
                 quota, archives, api, aw, cw, published, archived, cleanups, chan, hubVars>>

\* SQSWorker.processMessages: DeleteMessage after processMessage returned nil
IndexAck(w, ok) ==
  /\ iw[w].pc = "ack"
  /\ indexQ' = IF ok THEN indexQ \ {Head(iw[w].batch)} ELSE indexQ
  /\ iw' = [iw EXCEPT ![w] = Advance(iw[w], "index")]
  /\ UNCHANGED <<ps, psR, indices, si, oa, archiveQ, cleanupQ, nextMsg, nextId,
                 quota, archives, api, aw, cw, published, archived, cleanups, chan, hubVars>>

\* --------------------------------------------------- worker pool shutdown
\* time.Ticker: a tick is put into the ticker's channel, which holds one;
\* the ticker is stopped when runWorker returns
TickerFires(w) ==
  /\ ~wp.gone[w] /\ ~wp.tick[w]
  /\ wp' = [wp EXCEPT !.tick[w] = TRUE]
  /\ UNCHANGED <<ps, psR, indices, si, oa, indexQ, archiveQ, cleanupQ, nextMsg, nextId,
                 quota, archives, api, aw, cw, iw, published, archived, cleanups, cleaned,
                 scheduled, chan, liveVars, gateVars>>

\* SQSWorker.runWorker, select: the case <-ticker.C, which is ready when a
\* tick waits, whether or not shutdownChan is closed; then processMessages
\* receives (an empty answer leaves the peer at the select)
SelectTick(w) ==
  /\ ~wp.gone[w] /\ wp.tick[w]
  /\ iw[w].pc = "poll"
  /\ wp' = [wp EXCEPT !.tick[w] = FALSE]
  /\ IF indexQ = {}
     THEN iw' = iw
     ELSE \E b \in Batches(indexQ) :
             iw' = [iw EXCEPT ![w] = [IdlePeer EXCEPT !.pc = "index", !.batch = b]]
  /\ UNCHANGED <<ps, psR, indices, si, oa, indexQ, archiveQ, cleanupQ, nextMsg, nextId,
                 quota, archives, api, aw, cw, published, archived, cleanups, cleaned,
                 scheduled, chan, liveVars, gateVars>>

\* SQSWorker.runWorker, select: the case <-shutdownChan, ready once the
\* channel is closed; the peer returns and the deferred waitGroup.Done runs
SelectShutdown(w) ==
  /\ ~wp.gone[w] /\ wp.closed
  /\ iw[w].pc = "poll"
  /\ wp' = [wp EXCEPT !.gone[w] = TRUE, !.tick[w] = FALSE]
  /\ UNCHANGED <<ps, psR, indices, si, oa, indexQ, archiveQ, cleanupQ, nextMsg, nextId,
                 quota, archives, api, aw, cw, iw, published, archived, cleanups, cleaned,
                 scheduled, chan, liveVars, gateVars>>

\* SQSWorker.Stop: close(shutdownChan)
StopClose ==
  /\ wp.stop = "idle"
  /\ wp' = [wp EXCEPT !.closed = TRUE, !.stop = "waiting"]
  /\ UNCHANGED <<ps, psR, indices, si, oa, indexQ, archiveQ, cleanupQ, nextMsg, nextId,
                 quota, archives, api, aw, cw, iw, published, archived, cleanups, cleaned,
                 scheduled, chan, liveVars, gateVars>>

\* SQSWorker.Stop: waitGroup.Wait returns when every peer has called Done
StopReturn ==
  /\ wp.stop = "waiting"
  /\ \A w \in IndexPool : wp.gone[w]
  /\ wp' = [wp EXCEPT !.stop = "returned"]
  /\ UNCHANGED <<ps, psR, indices, si, oa, indexQ, archiveQ, cleanupQ, nextMsg, nextId,
                 quota, archives, api, aw, cw, iw, published, archived, cleanups, cleaned,
                 scheduled, chan, liveVars, gateVars>>

\* -------------------------------------------------------- WebSocket hub
\* HandleWebSocket: the tenant of a connection is the tenant of its token
ClientTenant(c) == IF c % 2 = 1 THEN "tA" ELSE "tB"

\* the goroutines that run handlePubSubMessage: per tenant the receive
\* goroutine of the current subscription and the one of the subscription
\* closed before it, which RedisPubSub.Unsubscribe does not stop
OldTask(t) == t \o "_old"
Tasks == Tenants \cup {OldTask(t) : t \in Tenants}
TaskTenant(k) == IF k \in Tenants THEN k ELSE CHOOSE t \in Tenants : OldTask(t) = k

\* idle: at the select of the receive loop; taken: a message received,
\* handlePubSubMessage not yet past mutex.RLock; run: inside the loop over
\* h.clients; closed: back at the select with the subscription closed
IdleDelivery == [pc |-> "idle", msg |-> None, todo |-> {}]
ClosedDelivery == [pc |-> "closed", msg |-> None, todo |-> {}]

\* where goroutine k is when handlePubSubMessage returns, set being the
\* tenants subscribed then
Returned(k, set) == IF k \in set THEN IdleDelivery ELSE ClosedDelivery

\* WebSocketHandler.Start takes mutex.Lock, handlePubSubMessage holds
\* mutex.RLock from its first to its last client
NoReader == \A k \in Tasks : dl[k].pc # "run"

\* a bridge that keeps the subscription of a tenant without clients
Unsubscribe_Keep(set, t) == set

\* RedisPubSub.Subscribe / Unsubscribe
Subscribe(set, t) == set \cup {t}
Unsubscribe(set, t) == set \ {t}

\* RedisPubSub.Subscribe, the receiving goroutine after Unsubscribe closed
\* its subscription: it returns, or it reads a nil message from the closed
\* channel of the client library and the dereference of msg.Payload stops
\* the process
AfterUnsubscribe(last, panic) == last /\ panic

\* RedisPubSub.Subscribe starts a new receive goroutine for the tenant; the
\* goroutine of the closed subscription, if it still has a message in hand,
\* goes on beside it
StartTask(t, d) ==
  IF d[t].pc = "idle" THEN d
  ELSE [d EXCEPT ![OldTask(t)] = d[t], ![t] = IdleDelivery]

\* WebSocketHandler.Start, case register
Register(c) ==
  /\ ~crashed /\ NoReader
  /\ conn[c] = "new"
  /\ conn' = [conn EXCEPT ![c] = "open"]
  /\ clients' = clients \cup {c}
  /\ tenantClients' = [tenantClients EXCEPT ![ClientTenant(c)] = @ + 1]
  /\ IF tenantClients'[ClientTenant(c)] = 1
     THEN /\ dl[ClientTenant(c)].pc # "idle" => dl[OldTask(ClientTenant(c))].pc # "taken"
          /\ subs' = Subscribe(subs, ClientTenant(c))
          /\ dl' = StartTask(ClientTenant(c), dl)
     ELSE UNCHANGED <<subs, dl>>
  /\ UNCHANGED <<pipeVars, chan, send, closed, wire, crashed, resp>>

\* an unregister that does not look the client up first
UnregisterCount_NoLookup(c, set, counts) == [counts EXCEPT ![ClientTenant(c)] = @ - 1]

\* WebSocketHandler.Start, case unregister: what happens to the refcount of
\* the client's tenant
UnregisterCount(c, set, counts) ==
  IF c \in set THEN [counts EXCEPT ![ClientTenant(c)] = @ - 1] ELSE counts

\* an unregister that closes the send channel without looking the client up
UnregisterClose_NoLookup(c, set, cl) == [cl EXCEPT ![c] = Append(@, "unregister")]

\* WebSocketHandler.Start, case unregister: close(client.send) for a client
\* that is still in h.clients
UnregisterClose(c, set, cl) ==
  IF c \in set THEN [cl EXCEPT ![c] = Append(@, "unregister")] ELSE cl

\* readPump saw the connection end and its deferred h.unregister <- client
\* is received by WebSocketHandler.Start
Unregister(c, panic) ==
  /\ ~crashed /\ NoReader
  /\ conn[c] = "open"
  /\ conn' = [conn EXCEPT ![c] = "gone"]
  /\ clients' = clients \ {c}
  /\ closed' = UnregisterClose(c, clients, closed)
  /\ tenantClients' = UnregisterCount(c, clients, tenantClients)
  /\ LET last == c \in clients /\ tenantClients'[ClientTenant(c)] = 0
     IN /\ subs' = IF last THEN Unsubscribe(subs, ClientTenant(c)) ELSE subs
        /\ chan' = IF last THEN [chan EXCEPT ![ClientTenant(c)] = <<>>] ELSE chan
        /\ crashed' = AfterUnsubscribe(last /\ dl[ClientTenant(c)].pc = "idle", panic)
  /\ UNCHANGED <<pipeVars, send, dl, wire, resp>>

\* a hub that sends to every connected client
Recipients_AllClients(msg) == clients

\* handlePubSubMessage: the clients the message is sent to
Recipients(msg) == {c \in clients : ClientTenant(c) = msg.tenant_id}

\* the receive goroutine of tenant t takes the next message from the
\* channel of its subscription: msg := <-ch
DeliverTake(t) ==
  /\ ~crashed
  /\ dl[t].pc = "idle"
  /\ chan[t] # <<>>
  /\ chan' = [chan EXCEPT ![t] = Tail(@)]
  /\ dl' = [dl EXCEPT ![t] = [pc |-> "taken", msg |-> Head(chan[t]), todo |-> {}]]
  /\ UNCHANGED <<pipeVars, clients, tenantClients, subs, send, closed, conn, wire,
                 crashed, resp>>

\* handlePubSubMessage called with the message in hand: mutex.RLock and the
\* start of the loop over h.clients
DeliverLock(k) ==
  /\ ~crashed
  /\ dl[k].pc = "taken"
  /\ dl' = [dl EXCEPT ![k] = IF Recipients(dl[k].msg) = {} THEN Returned(k, subs)
                             ELSE [pc |-> "run", msg |-> dl[k].msg,
                                   todo |-> Recipients(dl[k].msg)]]
  /\ UNCHANGED <<pipeVars, chan, clients, tenantClients, subs, send, closed, conn, wire,
                 crashed, resp>>

\* the subscription goroutine of tenant t takes the next message and calls
\* handlePubSubMessage, which takes mutex.RLock
DeliverStart(t) ==
  /\ ~crashed
  /\ dl[t].pc = "idle"
  /\ chan[t] # <<>>
  /\ chan' = [chan EXCEPT ![t] = Tail(@)]
  /\ LET msg == Head(chan[t])
     IN dl' = [dl EXCEPT ![t] = IF Recipients(msg) = {} THEN IdleDelivery
                                ELSE [pc |-> "run", msg |-> msg, todo |-> Recipients(msg)]]
  /\ UNCHANGED <<pipeVars, clients, tenantClients, subs, send, closed, conn, wire,
                 crashed, resp>>

\* handlePubSubMessage: is the send buffer of c full
BufferFull(c) == Len(send[c]) >= SendBufSize

\* handlePubSubMessage, one round of the loop for a client with room in its
\* buffer: client.send <- message
DeliverSend(k, c) ==
  /\ ~crashed
  /\ dl[k].pc = "run" /\ c \in dl[k].todo
  /\ c \in clients
  /\ ~BufferFull(c)
  /\ send' = [send EXCEPT ![c] = Append(@, dl[k].msg)]
  /\ dl' = [dl EXCEPT ![k] = IF dl[k].todo = {c} THEN Returned(k, subs)
                             ELSE [dl[k] EXCEPT !.todo = @ \ {c}]]
  /\ UNCHANGED <<pipeVars, chan, clients, tenantClients, subs, closed, conn, wire,
                 crashed, resp>>

\* handlePubSubMessage, one round of the loop for a client whose buffer is
\* full (the default branch): close, delete, decrement, unsubscribe at zero
DeliverDrop(k, c, panic) ==
  /\ ~crashed
  /\ dl[k].pc = "run" /\ c \in dl[k].todo
  /\ c \in clients
  /\ BufferFull(c)
  /\ closed' = [closed EXCEPT ![c] = Append(@, "drop")]
  /\ clients' = clients \ {c}
  /\ tenantClients' = [tenantClients EXCEPT ![ClientTenant(c)] = @ - 1]
  /\ LET last == tenantClients'[ClientTenant(c)] = 0
     IN /\ subs' = IF last THEN Unsubscribe(subs, ClientTenant(c)) ELSE subs
        /\ chan' = IF last THEN [chan EXCEPT ![ClientTenant(c)] = <<>>] ELSE chan
        /\ crashed' = AfterUnsubscribe(last, panic)
  /\ dl' = [dl EXCEPT ![k] = IF dl[k].todo = {c} THEN Returned(k, subs')
                             ELSE [dl[k] EXCEPT !.todo = @ \ {c}]]
  /\ UNCHANGED <<pipeVars, send, conn, wire, resp>>

\* handlePubSubMessage, one round of the loop for a client that another
\* goroutine inside the loop has dropped meanwhile (both hold RLock): the
\* iteration no longer yields the client, or the goroutine already has it
\* and its client.send <- message finds the channel closed, which panics
DeliverClosed(k, c, panic) ==
  /\ ~crashed
  /\ dl[k].pc = "run" /\ c \in dl[k].todo
  /\ c \notin clients
  /\ crashed' = panic
  /\ dl' = [dl EXCEPT ![k] = IF dl[k].todo = {c} THEN Returned(k, subs)
                             ELSE [dl[k] EXCEPT !.todo = @ \ {c}]]
  /\ UNCHANGED <<pipeVars, chan, clients, tenantClients, subs, send, closed, conn, wire,
                 resp>>

\* handlePubSubMessage writes h.clients and h.tenantClients under RLock; when
\* another goroutine is inside its own loop at that moment the Go runtime
\* may stop the process ("concurrent map iteration and map write")
DeliverRace(k, c) ==
  /\ ~crashed
  /\ dl[k].pc = "run" /\ c \in dl[k].todo
  /\ c \in clients
  /\ BufferFull(c)
  /\ \E k2 \in Tasks \ {k} : dl[k2].pc = "run"
  /\ crashed' = TRUE
  /\ UNCHANGED <<pipeVars, chan, clients, tenantClients, subs, send, closed, conn, dl,
                 wire, resp>>

\* a receive goroutine whose subscription was closed is back at msg := <-ch:
\* the closed channel yields nil and msg.Payload stops the process (or the
\* goroutine stays blocked, which is no step)
ReceiveClosed(k) ==
  /\ ~crashed
  /\ dl[k].pc = "closed"
  /\ crashed' = TRUE
  /\ UNCHANGED <<pipeVars, chan, clients, tenantClients, subs, send, closed, conn, dl,
                 wire, resp>>

\* writePump: the next buffered message goes to the connection
WritePump(c) ==
  /\ ~crashed
  /\ conn[c] = "open"
  /\ send[c] # <<>>
  /\ wire' = [wire EXCEPT ![c] = Append(@, Head(send[c]))]
  /\ send' = [send EXCEPT ![c] = Tail(@)]
  /\ UNCHANGED <<pipeVars, chan, clients, tenantClients, subs, closed, conn, dl,
                 crashed, resp>>

\* WebSocketHandler.BroadcastLog, called by Create and BulkCreate for a log
\* they stored
BroadcastLog(log, ok) ==
  /\ ~crashed
  /\ Len(published) < MaxPublished
  /\ IF ok THEN PublishOK(log) ELSE UNCHANGED <<published, chan>>
  /\ UNCHANGED <<ps, psR, indices, si, oa, indexQ, archiveQ, cleanupQ, nextMsg, nextId,
                 quota, archives, api, aw, cw, iw, archived, cleanups, hubVars>>

\* -------------------------------------------------------- read handlers
\* the orders ORDER BY timestamp DESC (sort: timestamp desc) can return
SortedDesc(S) ==
  {s \in [1..Cardinality(S) -> S] :
     /\ \A i, j \in 1..Cardinality(S) : i # j => s[i] # s[j]
     /\ \A i, j \in 1..Cardinality(S) : i < j => s[i].timestamp >= s[j].timestamp}

\* LIMIT / OFFSET (from / size): applied only when positive
Page(s, limit, offset) ==
  LET from == IF offset > 0 THEN offset ELSE 0
      to == IF limit > 0 THEN Min(Len(s), from + limit) ELSE Len(s)
  IN SubSeq(s, from + 1, to)

\* query strings of GET /logs, /logs/export, /logs/stats; tenant_id is a
\* parameter the handlers do not read
Queries ==
  {q \in [tenant_id : Tenants, user_id : {"", "u1"}, start_time : Times, end_time : Times,
          page : 1..2, page_size : 1..2] : q.start_time <= q.end_time}

\* gin's c.Query: the value of a parameter, "" when the query has none
Query(q, name) == IF name \in DOMAIN q THEN q[name] ELSE ""

\* getFilterFromQuery: TenantID is the tenant of the token
getFilterFromQuery(tok, q) ==
  [TenantID |-> tok, UserID |-> Query(q, "user_id"), Action |-> Query(q, "action"),
   ResourceType |-> Query(q, "resource_type"), Severity |-> Query(q, "severity"),
   SessionID |-> Query(q, "session_id"), IPAddress |-> Query(q, "ip_address"),
   UserAgent |-> Query(q, "user_agent"), Message |-> Query(q, "message"),
   StartTime |-> q.start_time, EndTime |-> q.end_time, Page |-> q.page,
   PageSize |-> q.page_size, Limit |-> 0, Offset |-> 0]

\* AuditLogService.List: defaults, then limit and offset
Paginate(f) ==
  LET page == IF f.Page < 1 THEN 1 ELSE f.Page
      size == IF f.PageSize < 1 THEN 10 ELSE f.PageSize
  IN [f EXCEPT !.Page = page, !.PageSize = size, !.Limit = size,
               !.Offset = (page - 1) * size]

\* a route choice that overlooks the session_id predicate
hasSearchCriteria_NoSession(f) ==
  \/ f.UserID # "" \/ f.Action # "" \/ f.ResourceType # "" \/ f.Severity # ""
  \/ f.IPAddress # "" \/ f.UserAgent # "" \/ f.Message # ""

\* AuditLogService.hasSearchCriteria
hasSearchCriteria(f) ==
  \/ f.UserID # "" \/ f.Action # "" \/ f.ResourceType # "" \/ f.Severity # ""
  \/ f.IPAddress # "" \/ f.UserAgent # "" \/ f.Message # "" \/ f.SessionID # ""

\* a search over the indices of every tenant (audit_logs_*)
IndexMatches_AllTenants(t, index) == index[1] = "audit_logs"

\* config.OpenSearchConfig.GetIndexPattern: audit_logs_<tenant>_*
IndexMatches(t, index) == index[1] = "audit_logs" /\ index[2] = t

\* buildSearchQuery: the document field each content predicate is matched
\* against (term queries; the match queries on user_agent and message are
\* taken as equality); a document without the field has it empty
TermField ==
  [Action |-> "action", ResourceType |-> "resource_type", Severity |-> "severity",
   SessionID |-> "session_id", IPAddress |-> "ip_address", UserAgent |-> "user_agent",
   Message |-> "message"]

\* repository.Search: the documents of the indices of the context's tenant
\* that satisfy the query of buildSearchQuery
SearchHits(docs, t, f) ==
  {d.src : d \in {x \in docs : /\ IndexMatches(t, x.index)
                               /\ (f.UserID # "" => x.src.user_id = f.UserID)
                               /\ \A k \in DOMAIN TermField :
                                     f[k] # "" => Query(x.src, TermField[k]) = f[k]
                               /\ (f.StartTime # 0 => x.src.timestamp >= f.StartTime)
                               /\ (f.EndTime # 0 => x.src.timestamp <= f.EndTime)}}

\* getTenantScope + First("id = ?")
GetByIDRows(db, t, id) == {e \in db : e.tenant_id = t /\ e.id = id}

\* AuditLogRepository.GetStats: the rows counted (tenant, start <= ts < end)
StatsRows(db, f) ==
  {e \in db : e.tenant_id = f.TenantID /\ e.timestamp >= f.StartTime
              /\ e.timestamp < f.EndTime}

Response(tok, route, records) ==
  [tok |-> tok, route |-> route, records |-> records, status |-> 200, stats |-> None]

\* gorm First: the error it returns for the rows the query matched
FirstError(rows) == IF rows = {} THEN "ErrRecordNotFound" ELSE "nil"

\* AuditLogHandler.GetLog: the status written for what the service returned;
\* the service hands back the repository's error, or a non-nil response
GetLogStatus(err, found) ==
  IF err # "nil" THEN 500 ELSE IF ~found THEN 404 ELSE 200

\* AuditLogHandler.GetLog -> AuditLogService.GetByID
GetLog(tok, id) ==
  /\ ~crashed
  /\ LET rows == GetByIDRows(psR, tok, id)
         err == FirstError(rows)
     IN \E s \in SortedDesc(rows) :
           resp' = [Response(tok, "id", Page(s, 1, 0)) EXCEPT
                      !.status = GetLogStatus(err, err = "nil")]
  /\ UNCHANGED <<pipeVars, chan, clients, tenantClients, subs, send, closed, conn, dl,
                 wire, crashed>>

\* AuditLogService.List: the search index when the filter has search
\* criteria, the reader of the primary store otherwise
List(tok, f0) ==
  LET f == Paginate(f0)
  IN IF hasSearchCriteria(f)
     THEN {Response(tok, "si", Page(s, f.PageSize, (f.Page - 1) * f.PageSize)) :
             s \in SortedDesc(SearchHits(si, tok, f))}
     ELSE {Response(tok, "ps", Page(s, f.Limit, f.Offset)) :
             s \in SortedDesc(ListWhere(psR, f))}

\* AuditLogHandler.ListLogs
ListLogs(tok, q) ==
  /\ ~crashed
  /\ resp' \in List(tok, getFilterFromQuery(tok, q))
  /\ UNCHANGED <<pipeVars, chan, clients, tenantClients, subs, send, closed, conn, dl,
                 wire, crashed>>

\* AuditLogHandler.ExportLogs: service.List(filter, false), whose
\* usePagination argument List never reads, so the page defaults, limit and
\* offset apply as in ListLogs; the records are written as a JSON array or as
\* one CSV row each, in the order returned
Export(tok, f0) == {[r EXCEPT !.route = "export_" \o r.route] : r \in List(tok, f0)}

ExportLogs(tok, q) ==
  /\ ~crashed
  /\ resp' \in Export(tok, getFilterFromQuery(tok, q))
  /\ UNCHANGED <<pipeVars, chan, clients, tenantClients, subs, send, closed, conn, dl,
                 wire, crashed>>

\* AuditLogHandler.GetStats -> AuditLogService.GetStatsV2 -> repository GetStats
GetStats(tok, q) ==
  /\ ~crashed
  /\ \E s \in SortedDesc(StatsRows(psR, getFilterFromQuery(tok, q))) :
        resp' = Response(tok, "stats", s)
  /\ UNCHANGED <<pipeVars, chan, clients, tenantClients, subs, send, closed, conn, dl,
                 wire, crashed>>

\* ------------------------------------------------------------ statistics
\* time of the statistics model in ticks: time_bucket('1 hour') is
\* BucketWidth ticks wide, and the hourly rollup serves the ranges of at most
\* RollupRange ticks (24 * time.Hour in the source)
BucketWidth == 2
RollupRange == 2 * BucketWidth
MaxStatTime == 6
StatTimes == 0..MaxStatTime

\* an event with the columns the statistics group by
StatLog(id, t, ts, action, severity, resource) ==
  [id |-> id, tenant_id |-> t, user_id |-> "u1", timestamp |-> ts, action |-> action,
   severity |-> severity, resource_type |-> resource]

time_bucket(ts) == ts - (ts % BucketWidth)

\* the continuous aggregate audit_logs_hourly_stats, refreshed: one row per
\* (bucket, tenant_id, action, severity, resource_type) with COUNT(*)
GroupOf(db, e) ==
  {x \in db : /\ time_bucket(x.timestamp) = time_bucket(e.timestamp)
              /\ x.tenant_id = e.tenant_id /\ x.action = e.action
              /\ x.severity = e.severity /\ x.resource_type = e.resource_type}

audit_logs_hourly_stats(db) ==
  {[bucket |-> time_bucket(e.timestamp), tenant_id |-> e.tenant_id, action |-> e.action,
    severity |-> e.severity, resource_type |-> e.resource_type,
    count |-> Cardinality(GroupOf(db, e))] : e \in db}

RECURSIVE SumCount(_)
SumCount(rows) ==
  IF rows = {} THEN 0
  ELSE LET r == CHOOSE x \in rows : TRUE IN r.count + SumCount(rows \ {r})

\* the three maps of the response, from rows that carry a count
CountsOf(rows) ==
  [actions |-> [k \in {r.action : r \in rows} |->
                  SumCount({r \in rows : r.action = k})],
   severities |-> [k \in {r.severity : r \in rows} |->
                     SumCount({r \in rows : r.severity = k})],
   resources |-> [k \in {r.resource_type : r \in rows} \ {""} |->
                    SumCount({r \in rows : r.resource_type = k})]]

\* AuditLogRepository.GetStats, rollup branch: SELECT COUNT(*) FROM
\* audit_logs_hourly_stats
RollupTotal(rows) == Cardinality(rows)

\* AuditLogRepository.GetStats: the rollup for a range of at most 24 h, the
\* base table for a longer one
StatsOf(db, f) ==
  IF f.EndTime - f.StartTime <= RollupRange
  THEN LET rows == {r \in audit_logs_hourly_stats(db) :
                      /\ r.tenant_id = f.TenantID
                      /\ r.bucket >= f.StartTime /\ r.bucket < f.EndTime}
       IN [source |-> "rollup", total_logs |-> RollupTotal(rows), counts |-> CountsOf(rows)]
  ELSE LET rows == {e @@ [count |-> 1] : e \in StatsRows(db, f)}
       IN [source |-> "base", total_logs |-> Cardinality(rows), counts |-> CountsOf(rows)]

StatFilter(tok, start, end) ==
  [TenantID |-> tok, UserID |-> "", StartTime |-> start, EndTime |-> end,
   Page |-> 0, PageSize |-> 0, Limit |-> 0, Offset |-> 0] @@ NoContent

\* AuditLogHandler.GetStats -> AuditLogService.GetStatsV2: the response body
GetStatsV2(tok, start, end) ==
  /\ ~crashed
  /\ start <= end
  /\ resp' = [Response(tok, "statsv2", <<>>) EXCEPT
                !.stats = StatsOf(psR, StatFilter(tok, start, end))]
  /\ UNCHANGED <<pipeVars, chan, clients, tenantClients, subs, send, closed, conn, dl,
                 wire, crashed>>

\* ------------------------------------------------- the middleware chain
\* Server.SetupRoutes: the route groups and the roles their RequireRole
\* handlers ask for, in the order the handlers run
Routes == {"tenants", "logs", "cleanup"}

RouteRoles(route) ==
  CASE route = "tenants" -> <<"admin">>
    [] route = "logs" -> <<"user">>
    [] route = "cleanup" -> <<"user", "auditor">>

Roles == {"admin", "user", "auditor"}
RoleSets == {{"admin"}, {"user"}, {"auditor"}, {"user", "auditor"}}

\* the claims of a token JWTAuth accepts; None stands for a missing header,
\* a malformed header or a token that does not verify
Claims == [tenant_id : {"tA"}, roles : RoleSets]
Tokens == Claims \cup {None}

IPs == {"ip1"}
\* the requests in flight at a time (gin runs each request on a goroutine of
\* its own); SerialConns: requests handled one after another
Conns == {"r1", "r2"}
SerialConns == {"r1"}

\* the keys of the counters
GlobalKey(ip) == <<"rate_limit:global:", ip>>
TenantKey(t) == <<"rate_limit:tenant:", t>>
RateKeys == {GlobalKey(ip) : ip \in IPs} \cup {TenantKey(t) : t \in Tenants}

\* RateLimitMiddleware.getTenantRateLimit
getTenantRateLimit(t) == IF DefaultRateLimit > 0 THEN DefaultRateLimit ELSE 1000

\* utils.GetTenantIDFromContext on c.Request.Context(): the tenant of the
\* claims stored in the request's context.Context
GetTenantIDFromContext(ctx) ==
  IF ctx = None THEN [id |-> "", err |-> TRUE] ELSE [id |-> ctx.tenant_id, err |-> FALSE]

\* hasRole
hasRole(claims, role) == role \in claims.roles

\* a request between two handlers of the chain.  http is what the validation
\* handlers read of the request (None once they are passed); rctx is what the request's
\* context.Context carries under ClaimsKey, keys what the gin context
\* carries under ClaimsKey; remaining is the X-RateLimit-Remaining header of
\* a 429 response
IdleRequest ==
  [pc |-> "idle", ip |-> "ip1", token |-> None, route |-> "logs", rctx |-> None,
   keys |-> None, k |-> 1, status |-> 0, at |-> "none", remaining |-> "",
   http |-> None]

\* the handler registered after the one that answers for stage
StageAfter(stage) ==
  CASE stage = "block" -> "sanitize"
    [] stage = "size" -> "ctype"
    [] stage = "ctype" -> "global_get"
    [] stage = "global" -> "auth"
    [] stage = "auth" -> "tenant_get"
    [] stage = "tenant" -> "role"
    [] stage = "role" -> "handler"
    [] OTHER -> "done"

\* a handler that writes its answer and returns without c.Abort(): gin goes
\* on with the next handler of the chain
Abort_NoStop(r, stage, code) ==
  [r EXCEPT !.pc = StageAfter(stage), !.status = code, !.at = stage]

\* the chain ends at stage with an HTTP status; the request is over and only
\* its response is kept
Abort(r, stage, code) ==
  [IdleRequest EXCEPT !.pc = "done", !.status = code, !.at = stage]

\* a limiter that answers 429 when it cannot read the counter
OnGetError_FailClosed(r, stage, next) ==
  [Abort(r, stage, 429) EXCEPT !.remaining = "0"]

\* both limiters, err != nil && err != redis.Nil after the GET: log, c.Next()
OnGetError(r, stage, next) == [r EXCEPT !.pc = next]

\* a limiter that admits one request more than the budget
Exceeded_OffByOne(current, limit) == current > limit

\* both limiters: current >= limit
Exceeded(current, limit) == current >= limit

\* both limiters, from the GET to the 429 or to the pipeline.  The GET
\* returns an error, or the value of the counter (redis.Nil is read as 0)
LimiterGet(r, stage, incr, next, key, limit) ==
  IF ~redisUp THEN OnGetError(r, stage, next)
  ELSE IF Exceeded(counter[key], limit)
       THEN [Abort(r, stage, 429) EXCEPT !.remaining = "0"]
       ELSE [r EXCEPT !.pc = incr]

\* the history of a key: requests that arrived since the burst began (seen),
\* ticks since its first request (age), ticks since the last counted request
\* (idle), and whether the counter store answered every call (healthy); seen
\* and age are kept for a healthy burst only; adm counts the requests the
\* limiter admitted (the pipeline ran) less than Window ticks after the first
\* request of the burst
FreshBurst == [seen |-> 0, age |-> 0, idle |-> Window, healthy |-> TRUE, adm |-> 0]

Unhealthy(b) == [b EXCEPT !.seen = 0, !.age = 0, !.healthy = FALSE, !.adm = 0]

\* the burst a request arriving now belongs to: a new one when no request was
\* counted during the last Window ticks
BurstAt(key) == IF burst[key].idle >= Window THEN FreshBurst ELSE burst[key]

Arrives(key, limit) ==
  [burst EXCEPT ![key] =
     IF redisUp /\ BurstAt(key).healthy
     THEN [BurstAt(key) EXCEPT !.seen = Min(@ + 1, limit + 1)]
     ELSE Unhealthy(BurstAt(key))]

Counted(key) ==
  [burst EXCEPT ![key] =
     IF redisUp
     THEN [@ EXCEPT !.idle = 0,
                    !.adm = IF burst[key].healthy /\ burst[key].age < Window
                            THEN @ + 1 ELSE @]
     ELSE Unhealthy(@)]

\* the router takes a request: the handlers of SetupRoutes run in order,
\* starting (after the validation handlers) with GlobalRateLimit
NewRequest(c, ip, token, route, rctx) ==
  /\ rq[c].pc \in {"idle", "done"}
  /\ rq' = [rq EXCEPT ![c] = [IdleRequest EXCEPT !.pc = "global_get", !.ip = ip,
                                                 !.token = token, !.route = route,
                                                 !.rctx = rctx]]
  /\ UNCHANGED <<storeVars, chan, liveVars, counter, ttl, redisUp, burst>>

\* RateLimitMiddleware.GlobalRateLimit up to the pipeline
GlobalGet(c) ==
  /\ rq[c].pc = "global_get"
  /\ rq' = [rq EXCEPT ![c] = LimiterGet(rq[c], "global", "global_incr", "auth",
                                        GlobalKey(rq[c].ip), GlobalLimit)]
  /\ burst' = Arrives(GlobalKey(rq[c].ip), GlobalLimit)
  /\ UNCHANGED <<storeVars, chan, liveVars, counter, ttl, redisUp>>

\* both limiters: pipe.Incr, pipe.Expire(key, time.Minute), pipe.Exec, whose
\* error is logged; then the headers of an admitted request (not modelled)
\* and c.Next()
LimiterIncr(c, stage, next, key, limit) ==
  /\ rq[c].pc = stage
  /\ IF redisUp
     THEN /\ counter' = [counter EXCEPT ![key] = @ + 1]
          /\ ttl' = [ttl EXCEPT ![key] = Window]
     ELSE UNCHANGED <<counter, ttl>>
  /\ rq' = [rq EXCEPT ![c].pc = next]
  /\ burst' = Counted(key)
  /\ UNCHANGED <<storeVars, chan, liveVars, redisUp>>

\* RateLimitMiddleware.GlobalRateLimit from the pipeline on
GlobalIncr(c) ==
  LimiterIncr(c, "global_incr", "auth", GlobalKey(rq[c].ip), GlobalLimit)

\* AuthMiddleware.JWTAuth: the claims go into the gin context (c.Set); the
\* request's context.Context is not touched
JWTAuth(c) ==
  /\ rq[c].pc = "auth"
  /\ rq' = [rq EXCEPT ![c] = IF rq[c].token = None THEN Abort(rq[c], "auth", 401)
                             ELSE [rq[c] EXCEPT !.pc = "tenant_get",
                                                !.keys = rq[c].token]]
  /\ UNCHANGED <<storeVars, chan, liveVars, counter, ttl, redisUp, burst>>

\* RateLimitMiddleware.TenantRateLimit up to the pipeline: the tenant comes
\* from c.Request.Context()
TenantGet(c) ==
  /\ rq[c].pc = "tenant_get"
  /\ LET got == GetTenantIDFromContext(rq[c].rctx)
         t == got.id
     IN IF got.err
        THEN /\ rq' = [rq EXCEPT ![c] = Abort(rq[c], "tenant", 401)]
             /\ burst' = burst
        ELSE /\ rq' = [rq EXCEPT ![c] = LimiterGet(rq[c], "tenant", "tenant_incr", "role",
                                                   TenantKey(t), getTenantRateLimit(t))]
             /\ burst' = Arrives(TenantKey(t), getTenantRateLimit(t))
  /\ UNCHANGED <<storeVars, chan, liveVars, counter, ttl, redisUp>>

\* RateLimitMiddleware.TenantRateLimit from the pipeline on
TenantIncr(c) ==
  LimiterIncr(c, "tenant_incr", "role", TenantKey(GetTenantIDFromContext(rq[c].rctx).id),
              getTenantRateLimit(GetTenantIDFromContext(rq[c].rctx).id))

\* AuthMiddleware.RequireRole: the k-th role handler of the route
RequireRole(c) ==
  /\ rq[c].pc = "role"
  /\ LET roles == RouteRoles(rq[c].route)
         k == rq[c].k
     IN rq' = [rq EXCEPT ![c] =
                 IF rq[c].keys = None THEN Abort(rq[c], "role", 401)
                 ELSE IF ~hasRole(rq[c].keys, roles[k]) THEN Abort(rq[c], "role", 403)
                 ELSE IF k < Len(roles) THEN [rq[c] EXCEPT !.k = k + 1]
                 ELSE [rq[c] EXCEPT !.pc = "handler"]]
  /\ UNCHANGED <<storeVars, chan, liveVars, counter, ttl, redisUp, burst>>

\* the route's handler runs and answers
Handler(c) ==
  /\ rq[c].pc = "handler"
  /\ rq' = [rq EXCEPT ![c] = Abort(rq[c], "handler", 200)]
  /\ UNCHANGED <<storeVars, chan, liveVars, counter, ttl, redisUp, burst>>

\* one tick of the clock: Redis drops a key whose time to live has run out
Tick ==
  /\ \E key \in RateKeys : ttl[key] > 0 \/ burst[key].idle < Window
  /\ ttl' = [key \in RateKeys |-> IF ttl[key] > 0 THEN ttl[key] - 1 ELSE 0]
  /\ counter' = [key \in RateKeys |-> IF ttl[key] > 1 THEN counter[key] ELSE 0]
  /\ burst' = [key \in RateKeys |->
                 [burst[key] EXCEPT !.age = IF burst[key].healthy THEN Min(@ + 1, Window)
                                            ELSE 0,
                                    !.idle = Min(@ + 1, Window)]]
  /\ UNCHANGED <<storeVars, chan, liveVars, rq, redisUp>>

\* Redis stops answering, or answers again
RedisFlip ==
  /\ redisUp' = ~redisUp
  /\ UNCHANGED <<storeVars, chan, liveVars, counter, ttl, rq, burst>>

\* ------------------------------------------------------ specifications
InitPipe ==
  /\ ps = {} /\ psR = {} /\ indices = {} /\ si = {}
  /\ oa = [k \in {S3Key(t, d) : t \in Tenants, d \in Times} |-> None]
  /\ indexQ = {} /\ archiveQ = {} /\ cleanupQ = {}
  /\ nextMsg = 1 /\ nextId = 1 /\ quota = MaxEvents /\ archives = 0 /\ cleanups = 0
  /\ api = [h \in Handlers |-> IdleReq]
  /\ aw = [w \in ArchivePeers |-> IdlePeer]
  /\ cw = [w \in CleanupPeers |-> IdlePeer]
  /\ iw = [w \in IndexPeers |-> IdlePeer]
  /\ published = <<>> /\ archived = {} /\ cleaned = {}
  /\ scheduled = [p \in Tenants \X Times |-> [sent |-> FALSE, events |-> {}]]
  /\ wp = RunningPool

InitGate ==
  /\ counter = [key \in RateKeys |-> 0]
  /\ ttl = [key \in RateKeys |-> 0]
  /\ rq = [c \in Conns |-> IdleRequest]
  /\ redisUp = TRUE
  /\ burst = [key \in RateKeys |-> FreshBurst]

InitHub ==
  /\ clients = {} /\ tenantClients = [t \in Tenants |-> 0] /\ subs = {}
  /\ chan = [t \in Tenants |-> <<>>]
  /\ send = [c \in Clients |-> <<>>]
  /\ closed = [c \in Clients |-> <<>>]
  /\ conn = [c \in Clients |-> "new"]
  /\ dl = [k \in Tasks |-> IdleDelivery]
  /\ wire = [c \in Clients |-> <<>>]
  /\ crashed = FALSE
  /\ resp = Response("tA", "none", <<>>)

Init == InitPipe /\ InitHub /\ InitGate

\* the write path: the API handlers and the index worker
NextIngest ==
  \/ \E h \in Handlers, req \in Requests, tok \in Tenants, ok \in BOOLEAN :
        CreateStore(h, req, tok, ok)
  \/ \E h \in Handlers, ok \in BOOLEAN : CreateEnqueue(h, ok)
  \/ \E h \in Handlers, ok \in BOOLEAN : CreatePublish(h, ok)
  \/ \E h \in Handlers, reqs \in BulkRequests, tok \in Tenants, failAt \in 0..MaxBulk :
        BulkStore(h, reqs, tok, failAt)
  \/ \E h \in Handlers, ok \in BOOLEAN : BulkEnqueue(h, ok)
  \/ \E h \in Handlers, ok \in BOOLEAN : BulkPublish(h, ok)
  \/ \E w \in IndexPeers, b \in Batches(indexQ) : IndexReceive(w, b)
  \/ \E w \in IndexPeers, out \in {"nocreate", "nowrite", "ok"} : IndexOne(w, out)
  \/ \E w \in IndexPeers, g \in {GetIndexName(t, d) : t \in Tenants, d \in Times},
        http \in {"nocreate", "error", "ok"} :
        \E acc \in SUBSET UNION {SeqToSet(iw[w].batch[i].logs) : i \in 1..Len(iw[w].batch)} :
           BulkGroup(w, g, http, acc)
  \/ \E w \in IndexPeers, ok \in BOOLEAN : IndexAck(w, ok)

SpecIngest == Init /\ [][NextIngest]_vars

\* the retention path: events arrive, archives are scheduled, the archive
\* and cleanup workers run, the replica follows the writer.  The index queue
\* and the pub/sub server are up here; their failures are in NextIngest
NextLifecycle ==
  \/ \E h \in Handlers, req \in Requests, tok \in Tenants, ok \in BOOLEAN :
        CreateStore(h, req, tok, ok)
  \/ \E h \in Handlers : CreateEnqueue(h, TRUE)
  \/ \E h \in Handlers : CreatePublish(h, TRUE)
  \/ \E tok \in Tenants, before \in Times, ok \in BOOLEAN : ScheduleArchive(tok, before, ok)
  \/ Replicate
  \/ \E w \in ArchivePeers, b \in Batches(archiveQ) : ArchiveReceive(w, b)
  \/ \E w \in ArchivePeers, ok \in BOOLEAN : ArchiveRead(w, ok)
  \/ \E w \in ArchivePeers, ok \in BOOLEAN : ArchiveWrite(w, ok)
  \/ \E w \in ArchivePeers, ok \in BOOLEAN : ArchiveEnqueue(w, ok)
  \/ \E w \in ArchivePeers, ok \in BOOLEAN : ArchiveAck(w, ok)
  \/ \E w \in CleanupPeers, b \in Batches(cleanupQ) : CleanupReceive(w, b)
  \/ \E w \in CleanupPeers, ok \in BOOLEAN : CleanupDelete(w, ok)
  \/ \E w \in CleanupPeers, ok \in BOOLEAN : CleanupAck(w, ok)

SpecLifecycle == Init /\ [][NextLifecycle]_vars

\* the retention path with workers that keep polling (the ticker of
\* ArchiveWorker.worker and CleanupWorker.worker), a replica that catches
\* up, and store, bucket and broker calls that succeed again and again
FairLifecycle ==
  /\ WF_vars(Replicate)
  /\ \A w \in ArchivePeers :
        /\ WF_vars(\E b \in Batches(archiveQ) : ArchiveReceive(w, b))
        /\ SF_vars(ArchiveRead(w, TRUE))
        /\ SF_vars(ArchiveWrite(w, TRUE))
        /\ SF_vars(ArchiveEnqueue(w, TRUE))
        /\ SF_vars(ArchiveAck(w, TRUE))
  /\ \A w \in CleanupPeers :
        /\ WF_vars(\E b \in Batches(cleanupQ) : CleanupReceive(w, b))
        /\ SF_vars(CleanupDelete(w, TRUE))
        /\ SF_vars(CleanupAck(w, TRUE))

SpecLifecycleFair == SpecLifecycle /\ FairLifecycle

\* the events of the serving models
ServeLogs ==
  {AuditLog(1, "tA", "u1", 1), AuditLog(2, "tA", "u2", 2), AuditLog(3, "tB", "u1", 1)}

\* a running system whose writer holds P, whose replica holds R and whose
\* search index holds the documents of D, with nothing in flight
InitStore(P, R, D) ==
  /\ ps = P /\ psR = R
  /\ si = {Doc(l) : l \in D}
  /\ indices = {GetIndexName(l.tenant_id, l.timestamp) : l \in D}
  /\ oa = [k \in {S3Key(t, d) : t \in Tenants, d \in Times} |-> None]
  /\ indexQ = {} /\ archiveQ = {} /\ cleanupQ = {}
  /\ nextMsg = 1 /\ nextId = 4 /\ quota = 0 /\ archives = 0 /\ cleanups = 0
  /\ api = [h \in Handlers |-> IdleReq]
  /\ aw = [w \in ArchivePeers |-> IdlePeer]
  /\ cw = [w \in CleanupPeers |-> IdlePeer]
  /\ iw = [w \in IndexPeers |-> IdlePeer]
  /\ published = <<>> /\ archived = {} /\ cleaned = {}
  /\ scheduled = [p \in Tenants \X Times |-> [sent |-> FALSE, events |-> {}]]
  /\ wp = RunningPool

\* the read handlers over the stores a run of the write and retention paths
\* can leave: the replica may lag the writer, the index keeps every document
InitRead ==
  /\ \E P \in SUBSET ServeLogs, R \in SUBSET ServeLogs, D \in SUBSET ServeLogs :
        InitStore(P, R, D)
  /\ InitHub
  /\ InitGate

NextRead ==
  \/ \E tok \in Tenants, id \in 1..3 : GetLog(tok, id)
  \/ \E tok \in Tenants, q \in Queries : ListLogs(tok, q)
  \/ \E tok \in Tenants, q \in Queries : ExportLogs(tok, q)
  \/ \E tok \in Tenants, q \in Queries : GetStats(tok, q)
  \/ Replicate

SpecRead == InitRead /\ [][NextRead]_vars

\* the retention path on a store whose events are replicated and indexed
InitPurge == InitStore(ServeLogs, ServeLogs, ServeLogs) /\ InitHub /\ InitGate

NextPurge ==
  \/ \E tok \in Tenants, before \in Times, ok \in BOOLEAN : ScheduleArchive(tok, before, ok)
  \/ Replicate
  \/ \E w \in ArchivePeers, b \in Batches(archiveQ) : ArchiveReceive(w, b)
  \/ \E w \in ArchivePeers, ok \in BOOLEAN : ArchiveRead(w, ok)
  \/ \E w \in ArchivePeers, ok \in BOOLEAN : ArchiveWrite(w, ok)
  \/ \E w \in ArchivePeers, ok \in BOOLEAN : ArchiveEnqueue(w, ok)
  \/ \E w \in ArchivePeers, ok \in BOOLEAN : ArchiveAck(w, ok)
  \/ \E w \in CleanupPeers, b \in Batches(cleanupQ) : CleanupReceive(w, b)
  \/ \E w \in CleanupPeers, ok \in BOOLEAN : CleanupDelete(w, ok)
  \/ \E w \in CleanupPeers, ok \in BOOLEAN : CleanupAck(w, ok)

SpecPurge == InitPurge /\ [][NextPurge]_vars

\* the statistics endpoint over stores whose events carry action, severity
\* and resource_type; two of them share hour, action, severity and
\* resource_type, one has no resource_type
StatLogs ==
  {StatLog(1, "tA", 0, "CREATE", "INFO", "user"),
   StatLog(2, "tA", 1, "CREATE", "INFO", "user"),
   StatLog(3, "tA", 2, "DELETE", "INFO", ""),
   StatLog(4, "tB", 0, "CREATE", "INFO", "user"),
   StatLog(5, "tA", 3, "CREATE", "ERROR", "order")}

InitStats ==
  /\ \E P \in SUBSET StatLogs : InitStore(P, P, {})
  /\ InitHub
  /\ InitGate

NextStats ==
  \E tok \in Tenants, start \in StatTimes, end \in StatTimes : GetStatsV2(tok, start, end)

SpecStats == InitStats /\ [][NextStats]_vars

\* the list and export endpoints over a stable dataset, replicated and
\* indexed in full, in which two events of a tenant share a timestamp
PageLogs ==
  {AuditLog(1, "tA", "u1", 1), AuditLog(2, "tA", "u1", 1), AuditLog(3, "tA", "u1", 2),
   AuditLog(4, "tB", "u1", 1)}

InitPages ==
  /\ \E P \in SUBSET PageLogs : InitStore(P, P, P)
  /\ InitHub
  /\ InitGate

NextPages ==
  \/ \E tok \in Tenants, q \in Queries : ListLogs(tok, q)
  \/ \E tok \in Tenants, q \in Queries : ExportLogs(tok, q)

SpecPages == InitPages /\ [][NextPages]_vars

\* GET /logs with the content predicates a query can hold
ContentParams ==
  {"action", "resource_type", "severity", "session_id", "ip_address", "user_agent",
   "message"}

\* at most one of them set, with and without user_id
RouteQueries ==
  {[tenant_id |-> "tA", user_id |-> u, start_time |-> 1, end_time |-> MaxTime,
    page |-> 1, page_size |-> size] @@ [n \in ContentParams |-> IF n = k THEN "x" ELSE ""] :
     u \in {"", "u1"}, size \in 1..2, k \in ContentParams \cup {"none"}}

InitRoute ==
  /\ \E P \in SUBSET ServeLogs, D \in SUBSET ServeLogs : InitStore(P, P, D)
  /\ InitHub
  /\ InitGate

NextRoute == \E tok \in Tenants, q \in RouteQueries : ListLogs(tok, q)

SpecRoute == InitRoute /\ [][NextRoute]_vars

\* the live stream: the hub, its clients and the pub/sub channels, fed with
\* the events of the store
InitLive == InitStore(ServeLogs, ServeLogs, ServeLogs) /\ InitHub /\ InitGate

NextLive ==
  \/ \E c \in Clients : Register(c)
  \/ \E c \in Clients, panic \in BOOLEAN : Unregister(c, panic)
  \/ \E log \in ps, ok \in BOOLEAN : BroadcastLog(log, ok)
  \/ \E t \in Tenants : DeliverStart(t)
  \/ \E t \in Tenants, c \in Clients : DeliverSend(t, c)
  \/ \E t \in Tenants, c \in Clients, panic \in BOOLEAN : DeliverDrop(t, c, panic)
  \/ \E t \in Tenants, c \in Clients : DeliverRace(t, c)
  \/ \E c \in Clients : WritePump(c)

SpecLive == InitLive /\ [][NextLive]_vars

\* the hub with the receive goroutines step by step: a goroutine can be
\* between its receive and mutex.RLock when the hub unsubscribes its tenant,
\* and goes on beside the goroutine of the next subscription
NextRejoin ==
  \/ \E c \in Clients : Register(c)
  \/ \E c \in Clients, panic \in BOOLEAN : Unregister(c, panic)
  \/ \E log \in ps, ok \in BOOLEAN : BroadcastLog(log, ok)
  \/ \E t \in Tenants : DeliverTake(t)
  \/ \E k \in Tasks : DeliverLock(k)
  \/ \E k \in Tasks, c \in Clients : DeliverSend(k, c)
  \/ \E k \in Tasks, c \in Clients, panic \in BOOLEAN : DeliverDrop(k, c, panic)
  \/ \E k \in Tasks, c \in Clients, panic \in BOOLEAN : DeliverClosed(k, c, panic)
  \/ \E k \in Tasks, c \in Clients : DeliverRace(k, c)
  \/ \E k \in Tasks : ReceiveClosed(k)
  \/ \E c \in Clients : WritePump(c)

SpecRejoin == InitLive /\ [][NextRejoin]_vars

\* the middleware chain of /api/v1 with the counters in Redis.  The server
\* of cmd/api hands the chain a request whose context.Context carries no
\* claims (rctx = None); a caller that stored the verified claims there is
\* the other case
RequestContexts(token) == {None, token}

NextGate ==
  \/ \E c \in SerialConns, ip \in IPs, token \in Tokens, route \in Routes :
        \E rctx \in RequestContexts(token) : NewRequest(c, ip, token, route, rctx)
  \/ \E c \in SerialConns : GlobalGet(c)
  \/ \E c \in SerialConns : GlobalIncr(c)
  \/ \E c \in SerialConns : JWTAuth(c)
  \/ \E c \in SerialConns : TenantGet(c)
  \/ \E c \in SerialConns : TenantIncr(c)
  \/ \E c \in SerialConns : RequireRole(c)
  \/ \E c \in SerialConns : Handler(c)
  \/ Tick
  \/ RedisFlip

SpecGate == Init /\ [][NextGate]_vars

\* the same chain with two requests in flight on a healthy counter store:
\* the handlers of the two requests interleave step by step
RaceToken == [tenant_id |-> "tA", roles |-> {"user"}]

NextRace ==
  \/ \E c \in Conns, ip \in IPs :
        \E rctx \in RequestContexts(RaceToken) : NewRequest(c, ip, RaceToken, "logs", rctx)
  \/ \E c \in Conns : GlobalGet(c)
  \/ \E c \in Conns : GlobalIncr(c)
  \/ \E c \in Conns : JWTAuth(c)
  \/ \E c \in Conns : TenantGet(c)
  \/ \E c \in Conns : TenantIncr(c)
  \/ \E c \in Conns : RequireRole(c)
  \/ \E c \in Conns : Handler(c)
  \/ Tick

SpecRace == Init /\ [][NextRace]_vars

\* two peers of the index worker pool on an index queue that holds the
\* BULK_INDEX message of a BulkCreate of two events and the INDEX message of
\* a Create, the events being in the primary store
IndexBacklog ==
  {BulkIndexMessage(1, <<AuditLog(1, "tA", "u1", 1), AuditLog(2, "tA", "u2", 2)>>),
   IndexMessage(2, AuditLog(3, "tB", "u1", 1))}

InitIndex ==
  /\ ps = ServeLogs /\ psR = ServeLogs
  /\ si = {} /\ indices = {}
  /\ oa = [k \in {S3Key(t, d) : t \in Tenants, d \in Times} |-> None]
  /\ indexQ = IndexBacklog /\ archiveQ = {} /\ cleanupQ = {}
  /\ nextMsg = 3 /\ nextId = 4 /\ quota = 0 /\ archives = 0 /\ cleanups = 0
  /\ api = [h \in Handlers |-> IdleReq]
  /\ aw = [w \in ArchivePeers |-> IdlePeer]
  /\ cw = [w \in CleanupPeers |-> IdlePeer]
  /\ iw = [w \in IndexPool |-> IdlePeer]
  /\ published = <<>> /\ archived = {} /\ cleaned = {}
  /\ scheduled = [p \in Tenants \X Times |-> [sent |-> FALSE, events |-> {}]]
  /\ wp = RunningPool
  /\ InitHub /\ InitGate

NextIndex ==
  \/ \E w \in IndexPool, b \in Batches(indexQ) : IndexReceive(w, b)
  \/ \E w \in IndexPool, out \in {"nocreate", "nowrite", "ok"} : IndexOne(w, out)
  \/ \E w \in IndexPool, g \in {GetIndexName(t, d) : t \in Tenants, d \in Times},
        http \in {"nocreate", "error", "ok"} :
        \E acc \in SUBSET UNION {SeqToSet(iw[w].batch[i].logs) : i \in 1..Len(iw[w].batch)} :
           BulkGroup(w, g, http, acc)
  \/ \E w \in IndexPool, ok \in BOOLEAN : IndexAck(w, ok)

SpecIndex == InitIndex /\ [][NextIndex]_vars

\* the index pool with peers that keep polling (the ticker of
\* SQSWorker.worker), a queue that hands every message it holds to every
\* peer again and again, index and bulk requests of every index that are
\* carried out in full again and again, and DeleteMessage calls that succeed
\* again and again
FairIndex ==
  \A w \in IndexPool :
     /\ \A m \in IndexBacklog :
           SF_vars(\E b \in Batches(indexQ) : Head(b) = m /\ IndexReceive(w, b))
     /\ SF_vars(IndexOne(w, "ok"))
     /\ \A g \in UNION {LogGroups(m.logs) : m \in {x \in IndexBacklog :
                                                     x.type = MessageTypeBulkIndex}} :
           SF_vars(BulkGroup(w, g, "ok", GroupLogs(Head(iw[w].batch).logs, g)))
     /\ SF_vars(IndexAck(w, TRUE))

SpecIndexFair == SpecIndex /\ FairIndex

\* the same pool and backlog with the tickers, the select of runWorker and a
\* caller of Stop
NextStop ==
  \/ \E w \in IndexPool : TickerFires(w)
  \/ \E w \in IndexPool : SelectTick(w)
  \/ \E w \in IndexPool : SelectShutdown(w)
  \/ \E w \in IndexPool, out \in {"nocreate", "nowrite", "ok"} : IndexOne(w, out)
  \/ \E w \in IndexPool, g \in {GetIndexName(t, d) : t \in Tenants, d \in Times},
        http \in {"nocreate", "error", "ok"} :
        \E acc \in SUBSET UNION {SeqToSet(iw[w].batch[i].logs) : i \in 1..Len(iw[w].batch)} :
           BulkGroup(w, g, http, acc)
  \/ \E w \in IndexPool, ok \in BOOLEAN : IndexAck(w, ok)
  \/ StopClose
  \/ StopReturn

SpecStop == InitIndex /\ [][NextStop]_vars

\* ---------------------------------------------------------------- claims
\* the ARCHIVE / CLEANUP message a worker has in hand
InHand(p) == Head(p.batch)

\* the cleanup worker w deletes rows of the writer in this step
CleanupDeletes(w) == cw[w].pc = "delete" /\ cw'[w].pc = "ack" /\ ps' # ps

\* the archive worker w enqueues a CLEANUP message in this step
CleanupEnqueued(w) == aw[w].pc = "enqueue" /\ aw'[w].pc = "ack"

\* C1: whenever the cleanup worker deletes an event of tenant T while it
\* processes CLEANUP(T, D), an archive object for (T, D) exists in the object
\* store
C1_ArchiveBeforeDelete ==
  [][\A w \in CleanupPeers :
       CleanupDeletes(w) =>
         oa[S3Key(InHand(cw[w]).tenant_id, InHand(cw[w]).before_date)] # None]_vars

C3_CleanupOnlyAfterArchive ==
  /\ [](/\ \A m \in cleanupQ : /\ m.type = MessageTypeCleanup
                               /\ <<m.tenant_id, m.before_date>> \in archived
        /\ \A m \in archiveQ : m.type = MessageTypeArchive
        /\ Cardinality(cleanupQ) <= cleanups)
  /\ [][/\ \A w \in CleanupPeers :
             CleanupDeletes(w) =>
               <<InHand(cw[w]).tenant_id, InHand(cw[w]).before_date>> \in archived
        /\ cleanupQ' \ cleanupQ # {} => \E w \in ArchivePeers : CleanupEnqueued(w)]_vars

\* the cleanup worker has deleted an event after the archive of its tenant
\* and before_date
C3_Witness ==
  \E w \in CleanupPeers :
     /\ cw[w].pc = "ack"
     /\ <<InHand(cw[w]).tenant_id, InHand(cw[w]).before_date>> \in archived
     /\ \E o \in {oa[k] : k \in DOMAIN oa} \ {None} : o.logs \ ps # {}

\* the index worker w deletes the message in hand from the index queue
IndexDeletes(w) == iw[w].pc = "ack" /\ InHand(iw[w]) \in indexQ /\ InHand(iw[w]) \notin indexQ'

\* the documents the search index holds for the events a message carries
Indexed(docs, msg) == {l \in SeqToSet(msg.logs) : Doc(l) \in docs}

\* C4: the index worker deletes an index-queue message only when the search
\* index holds a document for every event the message carries
C4_DeleteOnlyAfterIndexed ==
  [][\A w \in IndexPeers :
       IndexDeletes(w) => Indexed(si, InHand(iw[w])) = SeqToSet(InHand(iw[w]).logs)]_vars

\* the request of handler h failed at the primary-store write
StoreFailed(h) == api[h].op # "none" /\ api[h].pc # "idle" /\ api[h].stored = {}

\* C8: when the primary-store write of Create or BulkCreate fails, the call
\* returns an error, no INDEX / BULK_INDEX message carries an event of the
\* request and none of its events is published
C8_StoreFailureStopsCall ==
  \A h \in Handlers :
     StoreFailed(h) =>
       /\ api[h].pc = "done" /\ api[h].result = "error"
       /\ api[h].sent = <<>> /\ api[h].enqErr = 0
       /\ api[h].pubs = <<>> /\ api[h].pubErr = 0
       /\ SeqToSet(api[h].logs) \cap ps = {}
       /\ \A m \in indexQ : SeqToSet(m.logs) \cap SeqToSet(api[h].logs) = {}
       /\ \A i \in 1..Len(published) : published[i].log \notin SeqToSet(api[h].logs)

\* a call failed at the store while an earlier event is stored, enqueued
\* and published
C8_Witness ==
  \E h \in Handlers :
     /\ StoreFailed(h) /\ api[h].result = "error"
     /\ ps # {} /\ indexQ # {} /\ published # <<>>

\* C9: when the primary-store write of Create succeeded, the call returns
\* success whether or not the INDEX enqueue and the publish succeeded, the
\* event is in the primary store, and the publish was attempted whatever the
\* enqueue did
C9_CreateSucceedsAfterStore ==
  \A h \in Handlers :
     (api[h].op = "create" /\ api[h].stored # {}) =>
       /\ api[h].stored = SeqToSet(api[h].logs)
       /\ api[h].stored \subseteq ps
       /\ api[h].result \in {"none", "ok"}
       /\ api[h].pc = "done" =>
            /\ api[h].result = "ok"
            /\ Len(api[h].sent) + api[h].enqErr = 1
            /\ Len(api[h].pubs) + api[h].pubErr = 1
       /\ api[h].pc = "publish" => Len(api[h].sent) + api[h].enqErr = 1

\* Create returned success after a failed enqueue and a delivered publish
C9_Witness ==
  \E h \in Handlers :
     /\ api[h].op = "create" /\ api[h].pc = "done" /\ api[h].result = "ok"
     /\ api[h].enqErr = 1 /\ Len(api[h].pubs) = 1
     /\ api[h].stored \subseteq ps /\ api[h].stored # {}

\* BulkCreate of handler h has returned
BulkDone(h) == api[h].op = "bulk" /\ api[h].pc = "done"

\* C10 as stated: a successful BulkCreate of n events stored all n, enqueued
\* exactly one BULK_INDEX message carrying the n events and published exactly
\* n live messages
C10_BulkExactlyOnce ==
  \A h \in Handlers :
     (BulkDone(h) /\ api[h].result = "ok") =>
       /\ api[h].stored = SeqToSet(api[h].logs)
       /\ Len(api[h].sent) = 1
       /\ api[h].sent[1] = BulkIndexMessage(api[h].sent[1].mid, api[h].logs)
       /\ api[h].pubs = [i \in 1..Len(api[h].logs) |-> FromAuditLog(api[h].logs[i])]

\* C10, amended: BulkCreate stores all n events or none.  When it stored them
\* it returns success, has called SendBulkIndexMessage once with all n events
\* (exactly one BULK_INDEX message when the queue accepted it, none otherwise)
\* and has called BroadcastLog once per event in order (n live messages when
\* every publish was accepted).  When the insert failed it returns an error
\* and none of the n events is stored
C10_BulkAllOrNothing ==
  \A h \in Handlers :
     BulkDone(h) =>
       /\ api[h].stored \in {{}, SeqToSet(api[h].logs)}
       /\ api[h].stored = SeqToSet(api[h].logs) \cap ps
       /\ api[h].result = "ok" <=> api[h].stored # {}
       /\ api[h].result = "ok" =>
            /\ Len(api[h].sent) + api[h].enqErr = 1
            /\ \A i \in 1..Len(api[h].sent) :
                  /\ api[h].sent[i] = BulkIndexMessage(api[h].sent[i].mid, api[h].logs)
                  /\ api[h].sent[i].type = MessageTypeBulkIndex
            /\ Len(api[h].pubs) + api[h].pubErr = Len(api[h].logs)
            /\ \A i \in 1..Len(api[h].pubs) :
                  \E j \in i..Len(api[h].logs) : api[h].pubs[i] = FromAuditLog(api[h].logs[j])
            /\ (api[h].enqErr = 0 /\ api[h].pubErr = 0) =>
                  /\ Len(api[h].sent) = 1
                  /\ api[h].pubs = [i \in 1..Len(api[h].logs) |->
                                      FromAuditLog(api[h].logs[i])]

\* a BulkCreate of two events returned success with one message and two
\* publishes
C10_Witness ==
  \E h \in Handlers :
     /\ BulkDone(h) /\ api[h].result = "ok" /\ Len(api[h].logs) = 2
     /\ Len(api[h].sent) = 1 /\ Len(api[h].pubs) = 2
     /\ api[h].stored \subseteq ps

\* C5: every record a read handler returns (GetLog, ListLogs on the
\* primary-store route and on the search-index route, ExportLogs, GetStats)
\* has the tenant_id of the caller's token, whatever the query holds
C5_ReadsTenantScoped ==
  \A i \in 1..Len(resp.records) : resp.records[i].tenant_id = resp.tok

\* the search-index route returned records to a caller while the index also
\* holds a document of another tenant with the same user_id
C5_Witness ==
  /\ resp.route = "si" /\ resp.records # <<>>
  /\ \E d \in si : /\ d.src.tenant_id # resp.tok
                   /\ d.src.user_id = resp.records[1].user_id

\* C6: every message in a client's send buffer, written to its connection or
\* about to be sent to it by a running delivery is of the client's tenant
C6_DeliveryTenantScoped ==
  /\ \A c \in Clients :
        /\ \A i \in 1..Len(send[c]) : send[c][i].tenant_id = ClientTenant(c)
        /\ \A m \in SeqToSet(wire[c]) : m.tenant_id = ClientTenant(c)
  /\ \A t \in Tenants :
        dl[t].pc = "run" => \A c \in dl[t].todo : dl[t].msg.tenant_id = ClientTenant(c)

\* a client received a message while a client of another tenant is connected
C6_Witness ==
  \E c, d \in clients :
     /\ ClientTenant(c) # ClientTenant(d)
     /\ wire[c] # <<>>

\* the delivery of tenant t drops client c in this step
Drops(t, c) ==
  /\ dl[t].pc = "run" /\ c \in dl[t].todo /\ BufferFull(c) /\ c \in clients
  /\ dl'[t] # dl[t] /\ c \notin dl'[t].todo

\* the unregister of client c is handled in this step
Unregisters(c) == conn[c] = "open" /\ conn'[c] = "gone"

\* the sessions of tenant t
Sessions(t) == {c \in clients : ClientTenant(c) = t}

\* C7: a message for a client whose buffer is full makes the hub close the
\* buffer once, remove the session and lower the tenant's refcount by one;
\* the unregister that client's reader sends later changes neither the
\* refcount nor the buffer; the refcount is the number of sessions
C7_DropDecrementsOnce ==
  /\ [](\A t \in Tenants : tenantClients[t] = Cardinality(Sessions(t)))
  /\ [](\A c \in Clients : Len(closed[c]) <= 1)
  /\ [][\A t \in Tenants, c \in Clients :
          Drops(t, c) =>
            /\ Len(send[c]) = SendBufSize
            /\ closed'[c] = Append(closed[c], "drop")
            /\ clients' = clients \ {c}
            /\ tenantClients' = [tenantClients EXCEPT ![ClientTenant(c)] = @ - 1]]_vars
  /\ [][\A c \in Clients :
          (Unregisters(c) /\ closed[c] = <<"drop">>) =>
            /\ tenantClients' = tenantClients
            /\ closed' = closed
            /\ clients' = clients]_vars

\* a client the hub dropped has since been unregistered by its reader while
\* another client of its tenant is still connected
C7_Witness ==
  \E c \in Clients :
     /\ closed[c] = <<"drop">> /\ conn[c] = "gone" /\ ~crashed
     /\ tenantClients[ClientTenant(c)] = 1

\* the connection's request leaves the handler it is in
Leaves(c, stage) == rq[c].pc = stage /\ rq'[c] # rq[c]

\* C11: while the counter store answers with errors, a request that reaches
\* the GET or the INCR/EXPIRE pipeline of the global or of the tenant limiter
\* goes on to the next handler of the chain, gets no 429 from the limiter and
\* leaves the counters as they are
C11_LimiterFailsOpen ==
  [][\A c \in Conns :
       ~redisUp =>
         /\ (Leaves(c, "global_get") \/ Leaves(c, "global_incr")) =>
              /\ rq'[c].pc = "auth" /\ rq'[c].status = 0
              /\ counter' = counter /\ ttl' = ttl
         /\ ((Leaves(c, "tenant_get") /\ rq[c].rctx # None) \/ Leaves(c, "tenant_incr")) =>
              /\ rq'[c].pc = "role" /\ rq'[c].status = 0
              /\ counter' = counter /\ ttl' = ttl]_vars

\* with the store down, a request is past both limiters although the
\* counters of its IP and of its tenant are at their budgets
C11_Witness ==
  \E c \in Conns :
     /\ ~redisUp /\ rq[c].pc = "role" /\ rq[c].rctx # None
     /\ ~burst[GlobalKey(rq[c].ip)].healthy
     /\ counter[GlobalKey(rq[c].ip)] >= GlobalLimit
     /\ ~burst[TenantKey(rq[c].rctx.tenant_id)].healthy
     /\ counter[TenantKey(rq[c].rctx.tenant_id)] >= DefaultRateLimit

\* what a limiter with budget limit does, on a store that has answered every
\* call of the burst, with the request that arrives at its GET
BudgetKept(c, get, incr, stage, key, limit) ==
  (Leaves(c, get) /\ redisUp /\ BurstAt(key).healthy) =>
    /\ BurstAt(key).seen < limit => rq'[c].pc = incr
    /\ (BurstAt(key).seen = limit /\ BurstAt(key).age < Window) =>
         /\ rq'[c].pc = "done" /\ rq'[c].status = 429
         /\ rq'[c].at = stage /\ rq'[c].remaining = "0"
         /\ counter[key] = limit

\* C12: requests handled one after another on a healthy store: the first L
\* requests of a burst are admitted; request L + 1, arriving less than Window
\* after the first, gets 429 with X-RateLimit-Remaining: 0; a request that
\* arrives when nothing was counted for Window ticks starts a new burst and
\* is admitted.  An admitted request is counted and goes on
C12_BudgetThenReject ==
  [][\A c \in Conns :
       /\ BudgetKept(c, "global_get", "global_incr", "global",
                     GlobalKey(rq[c].ip), GlobalLimit)
       /\ rq[c].rctx # None =>
            BudgetKept(c, "tenant_get", "tenant_incr", "tenant",
                       TenantKey(rq[c].rctx.tenant_id),
                       getTenantRateLimit(rq[c].rctx.tenant_id))
       /\ (Leaves(c, "global_incr") /\ redisUp) =>
            /\ rq'[c].pc = "auth"
            /\ counter'[GlobalKey(rq[c].ip)] = counter[GlobalKey(rq[c].ip)] + 1
            /\ ttl'[GlobalKey(rq[c].ip)] = Window]_vars

\* request L + 1 of a healthy burst was rejected by the global limiter
C12_Witness ==
  \E c \in Conns :
     /\ rq[c].pc = "done" /\ rq[c].status = 429 /\ rq[c].at = "global"
     /\ rq[c].remaining = "0"
     /\ burst[GlobalKey("ip1")].healthy
     /\ burst[GlobalKey("ip1")].seen = GlobalLimit + 1
     /\ burst[GlobalKey("ip1")].age < Window
     /\ counter[GlobalKey("ip1")] = GlobalLimit

\* the role each route declares
DeclaredRole(route) ==
  CASE route = "tenants" -> "admin"
    [] route = "logs" -> "user"
    [] route = "cleanup" -> "auditor"

\* C13: a request reaches the handler of its route only with a token that
\* holds the role the route declares, and a request whose token holds that
\* role is not rejected by the role stage
C13_RoleGate ==
  /\ [](\A c \in Conns :
          rq[c].pc = "handler" => hasRole(rq[c].keys, DeclaredRole(rq[c].route)))
  /\ [][\A c \in Conns :
          (Leaves(c, "role") /\ hasRole(rq[c].keys, DeclaredRole(rq[c].route))) =>
            rq'[c].pc \in {"role", "handler"}]_vars

\* the documents one complete processing of a message writes
Once(msg) == {Doc(msg.logs[i]) : i \in 1..Len(msg.logs)}

\* peer w handles the message in hand in this step
Processes(w) == iw[w].pc = "index" /\ iw'[w] # iw[w]

\* C14: every document of the search index is the document of an event of
\* an enqueued message, under _id = event id in the index of the event's
\* tenant and date; a peer that processes a message adds documents of that
\* message only and removes none, and when the index already holds the
\* documents of the message (it was processed before, by this peer or by
\* another one) processing it again leaves the index as it is
C14_BulkIndexIdempotent ==
  /\ [](\A d \in si : /\ d.id = d.src.id
                      /\ d.index = GetIndexName(d.src.tenant_id, d.src.timestamp)
                      /\ d \in UNION {Once(m) : m \in IndexBacklog})
  /\ [](\A d, e \in si : d.src.id = e.src.id => d = e)
  /\ [][\A w \in IndexPool :
          Processes(w) =>
            /\ si \subseteq si' /\ si' \subseteq si \cup Once(InHand(iw[w]))
            /\ Once(InHand(iw[w])) \subseteq si => si' = si]_vars

\* two peers have each processed the BULK_INDEX message of two events to the
\* end, and the index holds one document per event
C14_Witness ==
  \E m \in IndexBacklog :
     /\ m.type = MessageTypeBulkIndex /\ Len(m.logs) = 2
     /\ \A w \in IndexPool : iw[w].pc = "ack" /\ InHand(iw[w]) = m
     /\ {d \in si : d.src \in SeqToSet(m.logs)} = Once(m)

\* the cleanup worker w completes processCleanupMessage in this step
CleanupProcessed(w) == cw[w].pc = "delete" /\ cw'[w].pc = "ack"

\* C15: when the cleanup worker processes a CLEANUP(T, D) message that was
\* processed before, the primary store stays as it is
C15_DuplicateCleanupNoOp ==
  [][\A w \in CleanupPeers :
       (CleanupProcessed(w)
          /\ <<InHand(cw[w]).tenant_id, InHand(cw[w]).before_date>> \in cleaned) =>
         ps' = ps]_vars

\* the (tenant, before_date) pairs of ScheduleArchive
ArchivePairs == Tenants \X Times

\* an object for the pair exists and holds every event the writer held for
\* it when the archive was scheduled
ArchiveHolds(p) ==
  /\ oa[S3Key(p[1], p[2])] # None
  /\ scheduled[p].events \subseteq oa[S3Key(p[1], p[2])].logs

\* C16: once ScheduleArchive(T, D) has enqueued its message, under fair
\* workers and calls that eventually succeed there is eventually an archive
\* object for (T, D) with every event of T before D that the primary store
\* held at schedule time, and eventually none of these events is left in the
\* primary store (stated for the schedules that found at least one such
\* event: with none the worker writes no object at all)
Pending(p) == scheduled[p].sent /\ scheduled[p].events # {}

C16_ArchiveChainCompletes ==
  \A p \in ArchivePairs :
     /\ Pending(p) ~> (Pending(p) /\ ArchiveHolds(p))
     /\ Pending(p) ~> (Pending(p) /\ scheduled[p].events \cap ps = {})

\* the events carried by the INDEX and BULK_INDEX messages of a queue
Enqueued(q) == UNION {SeqToSet(m.logs) : m \in q}

InSearchIndex(e) == Doc(e) \in si

\* C17: under fair index workers and search-index writes that eventually
\* succeed, every event whose INDEX or BULK_INDEX message is in the index
\* queue is eventually in the search index
C17_IndexedEventually ==
  \A e \in Enqueued(IndexBacklog) : (e \in Enqueued(indexQ)) ~> InSearchIndex(e)

\* a step in which cleanup peer w carries out the delete of a CLEANUP
\* message that covers event e
CleanupCovers(w, e) ==
  /\ cw[w].pc = "delete" /\ cw'[w].pc = "ack"
  /\ InHand(cw[w]).type = MessageTypeCleanup
  /\ InHand(cw[w]).tenant_id = e.tenant_id
  /\ e.timestamp < InHand(cw[w]).before_date

\* C18: an event of the primary store stays there with the same fields in
\* every step except the delete of a cleanup worker for a CLEANUP(T, D) with
\* T the event's tenant and D after the event's timestamp
C18_NoMutation ==
  [][\A e \in ps : e \notin ps' => \E w \in CleanupPeers : CleanupCovers(w, e)]_vars

\* a cleanup peer has just deleted for (T, D) and the store still holds an
\* event of another tenant or of T at a timestamp not before D
C18_Witness ==
  \E w \in CleanupPeers :
     /\ cw[w].pc = "ack"
     /\ <<InHand(cw[w]).tenant_id, InHand(cw[w]).before_date>> \in cleaned
     /\ \E e \in ps : e.tenant_id # InHand(cw[w]).tenant_id
     /\ \E e \in ps : /\ e.tenant_id = InHand(cw[w]).tenant_id
                      /\ e.timestamp >= InHand(cw[w]).before_date

\* every event of an archive object is strictly before the object's
\* before_date
SelectsBefore ==
  \A p \in ArchivePairs :
     oa[S3Key(p[1], p[2])] # None =>
        \A e \in oa[S3Key(p[1], p[2])].logs : e.tenant_id = p[1] /\ e.timestamp < p[2]

\* the delete step of a cleanup peer removes exactly the events of the
\* message's tenant strictly before its before_date
DeletesBefore ==
  \A w \in CleanupPeers :
     (cw[w].pc = "delete" /\ cw'[w].pc = "ack") =>
        ps' = {e \in ps : ~(/\ e.tenant_id = InHand(cw[w]).tenant_id
                            /\ e.timestamp < InHand(cw[w]).before_date)}

\* C19: before_date is an exclusive cutoff in both places: ARCHIVE(T, D)
\* selects and CLEANUP(T, D) deletes exactly the events of T with timestamp
\* < D; an event at timestamp D is neither archived nor deleted
C19_ExclusiveCutoff == []SelectsBefore /\ [][DeletesBefore]_vars

\* C20: an archive object, once written at a key, is never changed by a
\* later archive run (a redelivered ARCHIVE message or a new schedule for
\* the same tenant and before_date)
C20_ArchiveImmutable ==
  [][\A p \in ArchivePairs :
        oa[S3Key(p[1], p[2])] # None => oa'[S3Key(p[1], p[2])] = oa[S3Key(p[1], p[2])]]_vars

\* C21: GET /logs/:id for an id that the caller's tenant does not have in
\* the primary store (never created, of another tenant, or deleted) is
\* answered with 404, not with an internal error
C21_AbsentIdNotFound ==
  (resp.route = "id" /\ resp.records = <<>>) => resp.status = 404

\* the ranges of a statistics query, on hour boundaries
StatRanges ==
  {r \in [start : StatTimes, end : StatTimes] :
     /\ r.start <= r.end
     /\ r.start % BucketWidth = 0 /\ r.end % BucketWidth = 0}

Covered(db, t, r) == StatsRows(db, StatFilter(t, r.start, r.end))

AnswerOf(db, t, r) == StatsOf(db, StatFilter(t, r.start, r.end))

\* C22: a range served by the hourly rollup and a longer range served by
\* the base table that cover the same events of a tenant give the same
\* total_logs and the same counts by action, severity and resource_type,
\* and total_logs is the number of covered events
C22_StatsSourcesAgree ==
  \A t \in Tenants : \A r1, r2 \in StatRanges :
     (/\ AnswerOf(psR, t, r1).source = "rollup"
      /\ AnswerOf(psR, t, r2).source = "base"
      /\ Covered(psR, t, r1) = Covered(psR, t, r2))
     => /\ AnswerOf(psR, t, r1).total_logs = AnswerOf(psR, t, r2).total_logs
        /\ AnswerOf(psR, t, r1).counts = AnswerOf(psR, t, r2).counts
        /\ AnswerOf(psR, t, r1).total_logs = Cardinality(Covered(psR, t, r1))

\* the events a filter matches in the backend that List queries for it
Matching(tok, f) ==
  IF hasSearchCriteria(f) THEN SearchHits(si, tok, f) ELSE ListWhere(psR, f)

NoDuplicates(s) == \A i, j \in 1..Len(s) : i # j => s[i] # s[j]

IsSortedDesc(s) == \A i, j \in 1..Len(s) : i < j => s[i].timestamp >= s[j].timestamp

\* C23: on a stable dataset, pages 1 and 2 of the same filter and page_size,
\* put one after the other, are sorted by timestamp descending, hold no
\* event twice and leave none out (they hold the first 2 * page_size
\* matching events, or all of them), also when events share a timestamp
C23_PagesPartition ==
  \A tok \in Tenants : \A q \in {x \in Queries : x.page = 1} :
     \A r1 \in List(tok, getFilterFromQuery(tok, q)) :
        \A r2 \in List(tok, getFilterFromQuery(tok, [q EXCEPT !.page = 2])) :
           LET both == r1.records \o r2.records
               f == getFilterFromQuery(tok, q)
           IN /\ NoDuplicates(both)
              /\ IsSortedDesc(both)
              /\ Len(both) = Min(2 * q.page_size, Cardinality(Matching(tok, f)))

\* the query holds a non-empty content predicate
HasContentPredicate(q) ==
  \E name \in ContentParams \cup {"user_id"} : Query(q, name) # ""

ListAnswers(tok, q) == {r.records : r \in List(tok, getFilterFromQuery(tok, q))}

ExportAnswers(tok, q) == {r.records : r \in Export(tok, getFilterFromQuery(tok, q))}

\* C25: on an unchanged dataset, for the same caller, filter and page
\* parameters, GET /logs/export returns exactly the events GET /logs
\* returns, in the same order
C25_ExportEqualsList ==
  \A tok \in Tenants : \A q \in Queries :
     \A listed \in ListAnswers(tok, q) : \A exported \in ExportAnswers(tok, q) :
        exported = listed

\* cleanup peer w is done with the message in hand: DeleteMessage has been
\* attempted after a delete that succeeded
CleanupFinishes(w) == cw[w].pc = "ack" /\ cw'[w].pc # "ack"

\* C26: when the cleanup worker is done with CLEANUP(T, D), the documents of
\* the deleted events are gone from the search index: no document of T
\* before D is left, so that the index holds no event the primary store has
\* dropped
C26_IndexPurged ==
  [][\A w \in CleanupPeers :
        CleanupFinishes(w) =>
           \A d \in si' : (/\ d.src.tenant_id = InHand(cw[w]).tenant_id
                           /\ d.src.timestamp < InHand(cw[w]).before_date)
                          => d.src \in ps']_vars

\* peer w takes a tick from its ticker and calls ReceiveMessages
StartsReceive(w) == ~wp.gone[w] /\ wp.tick[w] /\ ~wp'.tick[w] /\ ~wp'.gone[w]

\* peer w returns from runWorker
PeerExits(w) == ~wp.gone[w] /\ wp'.gone[w]

NoReceiveAfterClose == \A w \in IndexPool : wp.closed => ~StartsReceive(w)

ExitsBetweenBatches == \A w \in IndexPool : PeerExits(w) => iw[w].pc = "poll" /\ wp.closed

StopAfterAllExited ==
  (wp.stop # "returned" /\ wp'.stop = "returned") => \A w \in IndexPool : wp.gone[w]

\* C27: once Stop has closed the shutdown channel no peer of the pool starts
\* a new receive; a peer exits only between two batches, the messages it
\* received being processed and their deletes attempted; Stop returns only
\* after every peer has exited
C27_Shutdown ==
  [][NoReceiveAfterClose /\ ExitsBetweenBatches /\ StopAfterAllExited]_vars

\* the events the system holds: the rows of the primary store (writer) and
\* the logs of the objects in the archive
Held(store, bucket) ==
  store \cup UNION {bucket[k].logs : k \in {x \in DOMAIN bucket : bucket[x] # None}}

\* C28: no data loss. Every event that Create or BulkCreate persisted is in
\* the primary store or in the logs of an archive object, in every reachable
\* state. An event enters the primary store when it is persisted, so the
\* statement is that no step drops an event from what the system holds:
\* whatever is in the store or in the archive before a step still is after it
C28_NoDataLoss == [][Held(ps, oa) \subseteq Held(ps', oa')]_vars

\* the steps of processArchiveMessage / processMessages on one message
ArchiveOrder ==
  {<<"read", "write">>, <<"read", "enqueue">>, <<"write", "enqueue">>, <<"enqueue", "ack">>}

\* archive peer w gives up the message in hand before the delete: the read,
\* the object write or the CLEANUP enqueue failed
ArchiveFails(w) ==
  /\ aw[w].pc \in {"read", "write", "enqueue"}
  /\ aw'[w] # aw[w]
  /\ aw'[w].batch # aw[w].batch

BudgetOf(key) == IF key[1] = "rate_limit:global:" THEN GlobalLimit ELSE getTenantRateLimit(key[2])

\* C30: for every key, the requests the limiter admits within one window
\* (less than Window ticks after the first request of a burst) never exceed
\* the budget of the key, also when the GET and the INCR of several requests
\* for the key interleave
C30_BudgetUnderConcurrency ==
  \A key \in RateKeys : burst[key].healthy => burst[key].adm <= BudgetOf(key)

\* a request is counted on key in this step
CountedOn(key) == counter'[key] = counter[key] + 1

\* C31: fixed window. The counter of a key gets its time to live when the
\* first request of a window is counted (the key did not exist); a later
\* request of the window is counted without re-arming it, so that the
\* counter goes away Window ticks after the first request of its window
C31_FixedWindow ==
  [][\A key \in RateKeys :
       CountedOn(key) =>
         /\ counter[key] = 0 => ttl'[key] = Window
         /\ counter[key] > 0 => ttl'[key] = ttl[key]]_vars

\* C32: the tenant limiter works with the tenant of the verified token. A
\* request that passed JWTAuth (its claims, with a string tenant_id, are in
\* the gin context) is not answered 401 by the tenant rate-limit stage, and
\* while the counter rate_limit:tenant:<tenant_id> of that tenant is under
\* its budget the request goes on towards the role gate
C32_TenantLimiterUsesToken ==
  [][\A c \in Conns :
       (Leaves(c, "tenant_get") /\ rq[c].keys # None) =>
         /\ rq'[c].status # 401
         /\ (redisUp /\ counter[TenantKey(rq[c].keys.tenant_id)]
                          < getTenantRateLimit(rq[c].keys.tenant_id)) =>
               rq'[c].pc \in {"tenant_incr", "role"}]_vars

\* the hub's maps and its subscription set change in this step
MapsChange == <<clients, tenantClients, subs>>' # <<clients, tenantClients, subs>>

\* C33: single-actor mutation. The clients map, the tenantClients map and
\* the subscription set are changed only by the hub's event loop (register,
\* unregister): a step that changes them is not a step of a pub/sub delivery
\* task, and no delivery task is inside handlePubSubMessage at that moment
C33_SingleActor == [][MapsChange => NoReader]_vars

\* the registered clients of tenant t
ClientsOf(t) == {c \in clients : ClientTenant(c) = t}

\* C34: reference-counted subscriptions. In every state of the hub,
\* tenantClients[T] is the number of registered clients of T and the hub
\* holds a subscription for T exactly when that number is at least 1 (the
\* first client of a tenant subscribes, the last one leaving, by unregister
\* or by slow-client drop, unsubscribes)
C34_RefCountedSubscriptions ==
  \A t \in Tenants :
     /\ tenantClients[t] = Cardinality(ClientsOf(t))
     /\ t \in subs <=> tenantClients[t] >= 1

\* tA lost a slow client by drop and keeps its subscription for the other
\* one, tB lost its only client by unregister and is unsubscribed
C34_Witness ==
  /\ ~crashed
  /\ tenantClients["tA"] = 1 /\ "tA" \in subs
  /\ \E c \in Clients : ClientTenant(c) = "tA" /\ closed[c] = <<"drop">>
  /\ \E c \in Clients : ClientTenant(c) = "tB" /\ closed[c] = <<"unregister">>
  /\ tenantClients["tB"] = 0 /\ "tB" \notin subs

\* a message is put into the send buffer of c in this step
SendsTo(c) == Len(send'[c]) > Len(send[c])

\* a goroutine inside handlePubSubMessage sends on the channel of c after
\* the channel was closed, which stops the process
SendsOnClosed(c) ==
  /\ \E k \in Tasks : dl[k].pc = "run" /\ c \in dl[k].todo /\ dl'[k] # dl[k]
  /\ closed[c] # <<>>
  /\ ~crashed /\ crashed'

\* C35: whatever the interleaving of register, unregister, slow-client drop
\* and deliveries, the send channel of a client is closed at most once and
\* nothing is sent on it after it was closed (either would be a panic of the
\* hub)
C35_NoClosedChannelPanic ==
  /\ [](\A c \in Clients : Len(closed[c]) <= 1)
  /\ [][\A c \in Clients : SendsTo(c) => closed[c] = <<>> /\ closed'[c] = <<>>]_vars
  /\ [][\A c \in Clients : ~SendsOnClosed(c)]_vars

\* the hub unsubscribes tenant t in this step
Unsubscribes(t) == t \in subs /\ t \notin subs'

\* C36: when the hub unsubscribes a tenant, the subscription is closed and
\* removed and the receive task of the tenant ends there: it takes nothing
\* more from the closed subscription channel (whose nil message would stop
\* the process) and does not call the hub's handler again
C36_ReceiveTaskEnds ==
  [][\A t \in Tenants :
       Unsubscribes(t) => /\ ~crashed'
                          /\ chan'[t] = <<>>
                          /\ dl'[t].pc \in {"idle", "closed"} \/ dl'[t] = dl[t]]_vars

\* the messages the hub received from the channel of tenant t, in order
Feed(t) ==
  LET own == SelectSeq(published, LAMBDA p : p.channel = getChannelName(t))
  IN [i \in 1..Len(own) |-> own[i].log]

\* s can be got from t by leaving messages out
RECURSIVE IsSubseq(_, _)
IsSubseq(s, t) ==
  IF s = <<>> THEN TRUE
  ELSE IF t = <<>> THEN FALSE
  ELSE IF Head(s) = Head(t) THEN IsSubseq(Tail(s), Tail(t))
  ELSE IsSubseq(s, Tail(t))

\* C37: FIFO per client. What writePump has written to the connection of a
\* client is, in this order and without repetition, a selection of the
\* messages the hub received from the channel of the client's tenant
C37_FifoPerClient ==
  \A c \in Clients : IsSubseq(wire[c], Feed(ClientTenant(c)))

\* handler h, serving a Create, takes the step at position pc
CreateStep(h, pc) ==
  api[h].op = "create" /\ api[h].pc = pc /\ api'[h] # api[h]

\* C38: per-event ordering of Create. The INDEX enqueue of an event runs
\* after its commit in the primary store and before its publish; the publish
\* runs after the commit and after the enqueue was attempted; no INDEX message
\* and no live message appears for an event that is not in the primary store
C38_PerEventOrder ==
  [][/\ \A h \in Handlers : CreateStep(h, "enqueue") =>
          /\ api[h].logs[1] \in ps
          /\ api[h].pubs = <<>> /\ api[h].pubErr = 0
     /\ \A h \in Handlers : CreateStep(h, "publish") =>
          /\ api[h].logs[1] \in ps
          /\ api[h].sent # <<>> \/ api[h].enqErr = 1
     /\ \A m \in indexQ' \ indexQ : m.type = MessageTypeIndex => m.logs[1] \in ps
     /\ Len(published') > Len(published) =>
          \E e \in ps : FromAuditLog(e) = published'[Len(published')].log]_vars

\* a Create has returned nil after storing, enqueueing and publishing its event
C38_Witness ==
  \E h \in Handlers :
    /\ api[h].op = "create" /\ api[h].pc = "done" /\ api[h].result = "ok"
    /\ api[h].stored = {api[h].logs[1]} /\ api[h].logs[1] \in ps
    /\ Len(api[h].sent) = 1 /\ api[h].sent[1] \in indexQ
    /\ api[h].sent[1].logs[1] = api[h].logs[1]
    /\ api[h].pubs = <<FromAuditLog(api[h].logs[1])>>
    /\ published # <<>> /\ published[Len(published)].log = api[h].pubs[1]

\* ----------------------------------------- validation handlers of /api/v1
\* ValidateRequestSize(10 * 1024 * 1024), scaled
MaxRequestSize == 2

\* ValidateContentType("application/json", "text/plain")
AllowedTypes == {"application/json", "text/plain"}

\* ValidationMiddleware.containsSuspiciousPattern: of the compiled patterns
\* the text alphabet can only form `--`
containsSuspiciousPattern(input) ==
  \E i \in 1..(Len(input) - 1) : input[i] = "-" /\ input[i + 1] = "-"

\* ValidationMiddleware.sanitizeString: null bytes and control characters are
\* left out
sanitizeString(input) == SelectSeq(input, LAMBDA ch : ch # "NUL")

\* what the validation handlers read of a request: path, one query value, one
\* header value other than Authorization (texts over the letters a, - and the
\* null byte), Content-Length, method, and Content-Type split at ";"
PlainInput ==
  [path |-> <<"a">>, query |-> <<"a">>, header |-> <<"a">>, length |-> 0,
   method |-> "POST", ctype |-> <<"application/json">>]

ChainInputs ==
  {PlainInput,
   [PlainInput EXCEPT !.path = <<"-", "-">>],
   [PlainInput EXCEPT !.query = <<"a", "-", "-">>],
   [PlainInput EXCEPT !.header = <<"-", "-">>],
   [PlainInput EXCEPT !.header = <<"-", "NUL", "-">>],
   [PlainInput EXCEPT !.length = MaxRequestSize + 1],
   [PlainInput EXCEPT !.length = MaxRequestSize, !.ctype = <<"text/plain", "charset=utf-8">>],
   [PlainInput EXCEPT !.ctype = <<>>],
   [PlainInput EXCEPT !.ctype = <<"text/html">>],
   [PlainInput EXCEPT !.method = "GET", !.ctype = <<>>]}

\* the router takes a request of a route of /api/v1: the handlers of
\* SetupRoutes run in the order of their registration
Arrive(c, ip, token, route, rctx, http) ==
  /\ rq[c].pc \in {"idle", "done"}
  /\ rq' = [rq EXCEPT ![c] = [IdleRequest EXCEPT !.pc = "block", !.ip = ip,
                                                 !.token = token, !.route = route,
                                                 !.rctx = rctx, !.http = http]]
  /\ UNCHANGED <<storeVars, chan, liveVars, counter, ttl, redisUp, burst>>

\* ValidationMiddleware.BlockSuspiciousPatterns
BlockSuspiciousPatterns(c) ==
  /\ rq[c].pc = "block"
  /\ rq' = [rq EXCEPT ![c] =
              IF \/ containsSuspiciousPattern(rq[c].http.path)
                 \/ containsSuspiciousPattern(rq[c].http.query)
                 \/ containsSuspiciousPattern(rq[c].http.header)
              THEN Abort(rq[c], "block", 400)
              ELSE [rq[c] EXCEPT !.pc = "sanitize"]]
  /\ UNCHANGED <<storeVars, chan, liveVars, counter, ttl, redisUp, burst>>

\* ValidationMiddleware.SanitizeInput: the header values are replaced in
\* c.Request.Header; the query values are replaced in the map URL.Query()
\* has just built, which the request does not keep
SanitizeInput(c) ==
  /\ rq[c].pc = "sanitize"
  /\ rq' = [rq EXCEPT ![c].http.header = sanitizeString(@), ![c].pc = "size"]
  /\ UNCHANGED <<storeVars, chan, liveVars, counter, ttl, redisUp, burst>>

\* ValidationMiddleware.ValidateRequestSize
ValidateRequestSize(c) ==
  /\ rq[c].pc = "size"
  /\ rq' = [rq EXCEPT ![c] = IF rq[c].http.length > MaxRequestSize
                             THEN Abort(rq[c], "size", 413)
                             ELSE [rq[c] EXCEPT !.pc = "ctype"]]
  /\ UNCHANGED <<storeVars, chan, liveVars, counter, ttl, redisUp, burst>>

\* ValidationMiddleware.ValidateContentType; GlobalRateLimit is next
ValidateContentType(c) ==
  /\ rq[c].pc = "ctype"
  /\ rq' = [rq EXCEPT ![c] =
              IF rq[c].http.method \in {"GET", "DELETE"}
              THEN [rq[c] EXCEPT !.pc = "global_get", !.http = None]
              ELSE IF rq[c].http.ctype = <<>> THEN Abort(rq[c], "ctype", 400)
              ELSE IF Head(rq[c].http.ctype) \notin AllowedTypes
                   THEN Abort(rq[c], "ctype", 415)
              ELSE [rq[c] EXCEPT !.pc = "global_get", !.http = None]]
  /\ UNCHANGED <<storeVars, chan, liveVars, counter, ttl, redisUp, burst>>

\* the whole chain of /api/v1, one request at a time, on a counter store
\* that answers
NextChain ==
  \/ \E c \in SerialConns, ip \in IPs, token \in Tokens, route \in Routes :
        \E rctx \in RequestContexts(token), http \in ChainInputs :
           Arrive(c, ip, token, route, rctx, http)
  \/ \E c \in SerialConns : BlockSuspiciousPatterns(c)
  \/ \E c \in SerialConns : SanitizeInput(c)
  \/ \E c \in SerialConns : ValidateRequestSize(c)
  \/ \E c \in SerialConns : ValidateContentType(c)
  \/ \E c \in SerialConns : GlobalGet(c)
  \/ \E c \in SerialConns : GlobalIncr(c)
  \/ \E c \in SerialConns : JWTAuth(c)
  \/ \E c \in SerialConns : TenantGet(c)
  \/ \E c \in SerialConns : TenantIncr(c)
  \/ \E c \in SerialConns : RequireRole(c)
  \/ \E c \in SerialConns : Handler(c)
  \/ Tick

SpecChain == Init /\ [][NextChain]_vars

\* the place of a handler in the chain of SetupRoutes
StageRank(pc) ==
  CASE pc = "block" -> 1
    [] pc = "sanitize" -> 2
    [] pc = "size" -> 3
    [] pc = "ctype" -> 4
    [] pc \in {"global_get", "global_incr"} -> 5
    [] pc = "auth" -> 6
    [] pc \in {"tenant_get", "tenant_incr"} -> 7
    [] pc = "role" -> 8
    [] pc = "handler" -> 9
    [] OTHER -> 0

\* request c moves on inside one stage: from a limiter's GET to its pipeline,
\* or from one role handler of the route to the next
SameStage(c) ==
  \/ rq[c].pc = "global_get" /\ rq'[c].pc = "global_incr"
  \/ rq[c].pc = "tenant_get" /\ rq'[c].pc = "tenant_incr"
  \/ rq[c].pc = "role" /\ rq'[c].pc = "role" /\ rq'[c].k = rq[c].k + 1

\* request c is answered in this step with an error status
Rejected(c) ==
  rq[c].pc \notin {"idle", "done"} /\ rq'[c].pc = "done" /\ rq'[c].status >= 400

\* C39: every request passes pattern block, sanitize, size check, type check,
\* global limiter, authentication, tenant limiter, role gate and handler in
\* this order; a request that was answered runs no further handler; a
\* rejection changes no counter; the global limiter rejects before the
\* request is authenticated; a counter is raised only by the pipeline of its
\* own limiter, the tenant counter only for an authenticated request
C39_OrderedChain ==
  /\ [](\A c \in SerialConns : rq[c].status # 0 => rq[c].pc = "done")
  /\ [][\A c \in SerialConns :
          /\ rq'[c] # rq[c] =>
               IF rq[c].pc \in {"idle", "done"} THEN rq'[c].pc = "block"
               ELSE \/ rq'[c].pc = "done"
                    \/ StageRank(rq'[c].pc) = StageRank(rq[c].pc) + 1
                    \/ SameStage(c)
          /\ Rejected(c) => counter' = counter
          /\ (Rejected(c) /\ rq'[c].at = "global") =>
               rq[c].pc = "global_get" /\ rq[c].keys = None /\ rq'[c].status = 429
          /\ (Rejected(c) /\ rq'[c].status = 429) => rq'[c].at \in {"global", "tenant"}
          /\ (rq'[c].keys # rq[c].keys /\ rq'[c].keys # None) => rq[c].pc = "auth"]_vars
  /\ [][\A key \in RateKeys : counter'[key] > counter[key] =>
          \E c \in SerialConns :
             /\ rq'[c].status = 0
             /\ \/ rq[c].pc = "global_incr" /\ key = GlobalKey(rq[c].ip) /\ rq[c].keys = None
                \/ /\ rq[c].pc = "tenant_incr" /\ rq[c].keys # None /\ rq[c].rctx # None
                   /\ key = TenantKey(rq[c].rctx.tenant_id)]_vars

\* the global limiter has answered 429 for a request that passed the four
\* validation handlers, on a counter that stands at the budget
C39_Witness ==
  \E c \in SerialConns :
    /\ rq[c].pc = "done" /\ rq[c].at = "global" /\ rq[c].status = 429
    /\ \E ip \in IPs : counter[GlobalKey(ip)] = GlobalLimit
    /\ \A t \in Tenants : counter[TenantKey(t)] = 0

\* C40: write-side tenant binding. Whatever a request of Create or BulkCreate
\* has stored in the primary store, enqueued for indexing or published
\* carries the tenant of the caller's token, whatever tenant the body names
C40_WriteTenantBinding ==
  \A h \in Handlers :
    /\ \A e \in api[h].stored : e.tenant_id = api[h].tok
    /\ \A i \in 1..Len(api[h].sent) :
         /\ api[h].sent[i].tenant_id = api[h].tok
         /\ \A j \in 1..Len(api[h].sent[i].logs) :
              api[h].sent[i].logs[j].tenant_id = api[h].tok
    /\ \A i \in 1..Len(api[h].pubs) : api[h].pubs[i].tenant_id = api[h].tok
====
